---- MODULE Spec2Model ----
(***************************************************************************)
(* A model of PrismJSX: the function-tree builder (analyzeFunctionTree)    *)
(* with its decoration pass (Provider.refresh), the syntax-tree analyses   *)
(* (analyze, kindOf), the region marker parser (parseRegions), the         *)
(* function colorer's exclusion subtraction (applyFunctionDecorations),    *)
(* the exclusion bus (publishExclusionRanges / onExclusionRanges) and the  *)
(* refresh entry point (applyAll).                                         *)
(***************************************************************************)
EXTENDS Integers, Sequences, FiniteSets, TLC

\* ----------------------------------------------------------------- bounds
\* Lines of a document handed to analyzeFunctionTree.
MaxLines == 3
\* Character slots of one line (so that two nodes can share a line).
Cols == 2
\* Function-like nodes of one source file.
MaxNodes == 3
\* Lines of a document scanned by parseRegions.
MaxDocLines == 4
\* Listeners that can be registered on the exclusion bus.
MaxListeners == 3
\* Nodes of a syntax tree walked by analyze.
MaxAstNodes == 6
\* Activations of applyAll the call stack has room for.
MaxCallDepth == 3
\* Longest record of bus events kept for one outermost publishExclusionRanges.
MaxEvents == 5
\* Widest leading whitespace of a line.
MaxIndent == 2

VARIABLES
  tpc,        \* analyzeFunctionTree: "idle" | "build" | "done"
  raws,       \* analyzeFunctionTree: raws, after raws.sort
  ti,         \* analyzeFunctionTree: index of the next raw of the for loop
  blocks,     \* the Blocks created so far; parent = 0 for a root
  stack       \* analyzeFunctionTree: stack (indices into blocks)

treeVars == <<tpc, raws, ti, blocks, stack>>

VARIABLES
  rpc,           \* parseRegions / applyRegionDecorations: "idle" | "scan" | "parsed"
  rdoc,          \* the lines of the document read so far by the for loop (line i is rdoc[i + 1])
  rstack,        \* parseRegions: stack
  rout,          \* parseRegions: out
  cachedRegions, \* regionDecorator: cachedRegions
  prevStack,     \* history: stack before the latest line was read
  prevOut        \* history: out before the latest line was read

regionVars == <<rpc, rdoc, rstack, rout, cachedRegions, prevStack, prevOut>>

VARIABLES
  listeners,   \* exclusionBus: listeners (a Set: insertion order, no duplicates)
  lastRanges,  \* exclusionBus: lastRanges
  frames,      \* publishExclusionRanges calls in progress: [ranges, idx]
  received,    \* what each listener last stored (suppressRanges of a colorer)
  calls,       \* history: the listener calls of the current bus operation
  raised,      \* history: the current bus operation ended by an exception
  lastOp,      \* history: the current bus operation
  published    \* history: the argument of the latest publishExclusionRanges

busVars == <<listeners, lastRanges, frames, received, calls, raised, lastOp, published>>

VARIABLES
  cpc,        \* applyAll: "idle" | "shown"
  cdoc,       \* the document of the pass
  allFuncs,   \* applyFunctionDecorations: all
  suppress,   \* applyFunctionDecorations: suppress
  shown,      \* the ranges given to setDecorations, each with the index in
              \* allFuncs of the function range it comes from
  stripeColor, \* the color of each of them (same indices as shown)
  noted       \* history: one function of an earlier pass, with its color

colorVars == <<cpc, cdoc, allFuncs, suppress, shown, stripeColor, noted>>

VARIABLES
  apc,        \* analysis of a syntax tree: "idle" | "depth" | "analyze" | "tree"
  ast,        \* the syntax tree of the source file (nodes in walk order)
  found       \* the Blocks of the analysis, in the order they were pushed

astVars == <<apc, ast, found>>

VARIABLES
  ppc,        \* Provider.refresh: "idle" | "painted"
  ptree,      \* the Blocks of analyzeFunctionTree, each with its parent
  lineCount,  \* doc.lineCount
  pass,       \* the paint spans pushed to the buckets by this pass
  reads,      \* the line indexes handed to doc.lineAt in this pass
  display     \* what each decoration type of decoByColor displays

paintVars == <<ppc, ptree, lineCount, pass, reads, display>>

VARIABLES
  lframes,    \* the activations of applyAll on the call stack, innermost last
  ldoc,       \* the document of the active editor
  lregions,   \* cachedRegions
  lparses,    \* runs of parseRegions since the external event
  lcolorings, \* runs of applyFunctionDecorations since the external event
  llast,      \* lastRanges of the exclusion bus
  lsub,       \* suppressRanges, stored by the colorer's bus listener
  lsuppress   \* the suppress argument of the last applyFunctionDecorations

loopVars == <<lframes, ldoc, lregions, lparses, lcolorings, llast, lsub, lsuppress>>

VARIABLES
  hpc,      \* colorFor: "idle", "loop" (inside hashStr), "done"
  hblock,   \* the block passed to colorFor: title and start line
  hk,       \* hashStr: index of the next character, from 1
  hacc,     \* hashStr: the accumulator h, a 32-bit integer
  hret,     \* the number returned by hashStr
  hcolor    \* the value returned by colorFor
hashVars == <<hpc, hblock, hk, hacc, hret, hcolor>>

VARIABLES
  events    \* what the bus did since the outermost publishExclusionRanges
            \* began: listener calls, replays, listeners.add, listeners.delete
            \* and publishExclusionRanges calls made by callbacks
reentVars == <<events>>

VARIABLES
  bpc,      \* Provider.refresh with line texts: "idle" | "painted"
  btree,    \* the Blocks of the document, in the order they were built
  bdoc,     \* the lines of the document: text kind and leading whitespace
  bwidths,  \* coloringWidth of every block that was decorated
  bopts     \* the DecorationOptions pushed in this pass, in push order
bandVars == <<bpc, btree, bdoc, bwidths, bopts>>

VARIABLES
  dpc,        \* RegionDecorator.apply: "idle" | "applied"
  ddoc,       \* the lines of the document
  dpairs,     \* outermostPairs
  dunmatched, \* unmatchedStarts
  dfallback,  \* braceFallbackRanges
  dsent       \* the ranges handed to exclusionEmitter.fire
decoVars == <<dpc, ddoc, dpairs, dunmatched, dfallback, dsent>>

VARIABLES
  gpc,         \* Provider.refresh and its paint handles: "idle" | "painted"
  decoByColor, \* the cache: every color that has a handle, with its handle
  handles,     \* the color of every handle createTextEditorDecorationType
               \* returned since activation, in creation order
  gbefore,     \* the number of handles when this pass began
  gasked,      \* the colors getDeco was called with in this pass, in call order
  gused        \* the handles handed to editor.setDecorations in this pass
handleVars == <<gpc, decoByColor, handles, gbefore, gasked, gused>>

vars ==
  <<treeVars, regionVars, busVars, colorVars, astVars, paintVars, loopVars, hashVars,
    reentVars, bandVars, decoVars, handleVars>>

\* ------------------------------------------------- analyzeFunctionTree
\* A function-like AST node is its character span <<getStart, last character>>.
Positions == 0 .. (MaxLines * Cols - 1)

Spans == {n \in Positions \X Positions : n[1] <= n[2]}

\* sf.getLineAndCharacterOfPosition(p).line
LineOf(p) == p \div Cols

\* Two nodes of one syntax tree are nested or disjoint; a is met first by walk.
PreorderBefore(a, b) ==
  \/ a[1] < b[1]
  \/ a[1] = b[1] /\ a[2] > b[2]

NestedOrDisjoint(a, b) ==
  \/ a[2] < b[1]
  \/ a[1] <= b[1] /\ b[2] <= a[2] /\ a # b

\* The function-like nodes of a source file, in the order walk() meets them.
RECURSIVE WalkOrders(_)
WalkOrders(k) ==
  IF k = 0 THEN {<<>>}
  ELSE LET prev == WalkOrders(k - 1)
       IN prev \cup
          {Append(f, n) : <<f, n>> \in
             {p \in prev \X Spans :
                /\ Len(p[1]) = k - 1
                /\ \A i \in 1 .. Len(p[1]) :
                     PreorderBefore(p[1][i], p[2]) /\ NestedOrDisjoint(p[1][i], p[2])}}

SourceFiles == WalkOrders(MaxNodes)

nodeRangeFullLines(n) == [start |-> LineOf(n[1]), end |-> LineOf(n[2])]

\* push(): one Raw per function-like node, with the node it was made from.
RawOf(n) ==
  [start |-> nodeRangeFullLines(n).start, end |-> nodeRangeFullLines(n).end, node |-> n]

\* The comparator of raws.sort: (a.start - b.start) || (b.end - a.end).
RawCompare(a, b) ==
  IF a.start - b.start # 0 THEN a.start - b.start ELSE b.end - a.end

\* Array.prototype.sort is stable: x goes after every element not greater than it.
RECURSIVE InsertRaw(_, _)
InsertRaw(s, x) ==
  IF s = <<>> THEN <<x>>
  ELSE IF RawCompare(s[Len(s)], x) <= 0 THEN Append(s, x)
  ELSE Append(InsertRaw(SubSeq(s, 1, Len(s) - 1), x), s[Len(s)])

RECURSIVE SortRaws(_)
SortRaws(s) ==
  IF s = <<>> THEN <<>>
  ELSE InsertRaw(SortRaws(SubSeq(s, 1, Len(s) - 1)), s[Len(s)])

\* The while condition's containment test: top encloses b by full lines.
Encloses(top, b) == top.start <= b.start /\ top.end >= b.end

\* while (stack.length && !encloses(top, b)) stack.pop()
RECURSIVE PopWhile(_, _, _)
PopWhile(st, bl, b) ==
  IF st # <<>> /\ ~Encloses(bl[st[Len(st)]], b)
  THEN PopWhile(SubSeq(st, 1, Len(st) - 1), bl, b)
  ELSE st

\* The depth field of a new Block, read when the Block literal is built.
DepthAtCreation(st) == Len(st)

TreeStart ==
  /\ tpc = "idle"
  /\ raws = <<>>
  /\ ti = 1
  /\ blocks = <<>>
  /\ stack = <<>>

\* analyzeFunctionTree is entered: walk collects raws, raws.sort orders them.
AnalyzeStart ==
  /\ tpc = "idle"
  /\ \E f \in SourceFiles :
       raws' = SortRaws([i \in 1 .. Len(f) |-> RawOf(f[i])])
  /\ ti' = 1
  /\ blocks' = <<>>
  /\ stack' = <<>>
  /\ tpc' = "build"
  /\ UNCHANGED <<regionVars, busVars, colorVars, astVars, paintVars, loopVars, hashVars, reentVars, bandVars, decoVars, handleVars>>

\* One iteration of `for (const r of raws)`.
BuildStep ==
  /\ tpc = "build"
  /\ ti <= Len(raws)
  /\ LET r == raws[ti]
         popped == PopWhile(stack, blocks, r)
         b == [start |-> r.start, end |-> r.end, node |-> r.node,
               depth |-> DepthAtCreation(stack),
               parent |-> IF popped # <<>> THEN popped[Len(popped)] ELSE 0]
     IN /\ blocks' = Append(blocks, b)
        /\ stack' = Append(popped, Len(blocks) + 1)
  /\ ti' = ti + 1
  /\ UNCHANGED <<tpc, raws, regionVars, busVars, colorVars, astVars, paintVars, loopVars, hashVars, reentVars, bandVars, decoVars, handleVars>>

\* return roots
AnalyzeReturn ==
  /\ tpc = "build"
  /\ ti > Len(raws)
  /\ tpc' = "done"
  /\ UNCHANGED <<raws, ti, blocks, stack, regionVars, busVars, colorVars, astVars, paintVars, loopVars, hashVars, reentVars, bandVars, decoVars, handleVars>>

\* The pass that asked for the tree is over: the tree is owned by that pass only.
RefreshReturn ==
  /\ tpc = "done"
  /\ tpc' = "idle"
  /\ raws' = <<>>
  /\ ti' = 1
  /\ blocks' = <<>>
  /\ stack' = <<>>
  /\ UNCHANGED <<regionVars, busVars, colorVars, astVars, paintVars, loopVars, hashVars, reentVars, bandVars, decoVars, handleVars>>

TreeNext == AnalyzeStart \/ BuildStep \/ AnalyzeReturn \/ RefreshReturn

\* ------------------------------------------------------- vscode.Position
Pos(l, c) == [line |-> l, ch |-> c]

\* Position.isBefore / isBeforeOrEqual / isAfter / isAfterOrEqual
isBefore(a, b) == a.line < b.line \/ (a.line = b.line /\ a.ch < b.ch)
isBeforeOrEqual(a, b) == a.line < b.line \/ (a.line = b.line /\ a.ch <= b.ch)
isAfter(a, b) == isBefore(b, a)
isAfterOrEqual(a, b) == isBeforeOrEqual(b, a)

\* new vscode.Range(start, end)
Range(a, b) == [start |-> a, end |-> b]

\* ------------------------------------------------------------ documents
\* A line is the text before a trailing marker comment (body), the marker
\* (mark) and what REGION_OPEN_RE / REGION_CLOSE_RE capture after the marker
\* word (cap).  NoCapture: the optional group did not take part (nothing, or
\* one white-space character, follows the marker word).  " ": two or more
\* white-space characters follow it, of which the lazy (.+?) keeps one.
\* Bodies: "blank", "code", "punct" (brackets and separators only; one `}`
\* where braces are counted) and "func" (a function head with its `{`).
NoCapture == "<undefined>"

PlainLine(b) == [body |-> b, mark |-> "none", cap |-> NoCapture]

OpenLine(b, c) == [body |-> b, mark |-> "open", cap |-> c]

CloseLine(b, c) == [body |-> b, mark |-> "close", cap |-> c]

\* doc.lineAt(i).text.length
LineLength(ln) ==
  (CASE ln.body = "blank" -> 0
     [] ln.body = "punct" -> 1
     [] ln.body = "func" -> 14
     [] OTHER -> 4)
  + (IF ln.mark = "none" THEN 0 ELSE 12)

\* text.match(REGION_CLOSE_RE) / text.match(REGION_OPEN_RE)
MatchesClose(ln) == ln.mark = "close"

MatchesOpen(ln) == ln.mark = "open"

\* normLabel: full-width space to space, trim, collapse white space, lower case.
normLabel(raw) ==
  IF raw = NoCapture THEN "__default__"
  ELSE CASE raw = " " -> ""
         [] raw = "A" -> "a"
         [] raw = "a" -> "a"
         [] raw = "B" -> "b"
         [] raw = "__default__" -> "__default__"

\* A slip lineRange does not make: the end at column 0 of the close line, as
\* nodeRangeFullLines has it, which leaves the close line out.
lineRangeToLineStart(d, startLine, endLine) ==
  Range(Pos(startLine, 0), Pos(endLine, 0))

\* lineRange(doc, startLine, endLine); d holds the lines up to endLine.
lineRange(d, startLine, endLine) ==
  Range(Pos(startLine, 0), Pos(endLine, LineLength(d[endLine + 1])))

\* ------------------------------------------------------------ parseRegions
\* for (let k = stack.length - 1; k >= 0; k--) if (stack[k].label === lbl) ...
\* (1-based here; 0: not found)
RECURSIVE FindSameLabel(_, _, _)
FindSameLabel(st, lbl, k) ==
  IF k = 0 THEN 0
  ELSE IF st[k].label = lbl THEN k
  ELSE FindSameLabel(st, lbl, k - 1)

\* stack.splice(idx, 1)
SpliceOne(st, idx) == SubSeq(st, 1, idx - 1) \o SubSeq(st, idx + 1, Len(st))

\* The index of the frame a close marker with normalized label lbl closes
\* (0: it closes nothing).
CloseTarget(st, lbl) ==
  IF st = <<>> THEN 0
  ELSE IF lbl = "__default__" THEN Len(st)
  ELSE FindSameLabel(st, lbl, Len(st))

\* The body of the for loop for line i (0-based), whose text is d[i + 1].
ScanLineResult(d, i, st, out) ==
  LET ln == d[i + 1] IN
  IF MatchesClose(ln)
  THEN LET idx == CloseTarget(st, normLabel(ln.cap)) IN
       IF idx = 0
       THEN [stack |-> st, out |-> out]
       ELSE [stack |-> SpliceOne(st, idx),
             out |-> Append(out, lineRange(d, st[idx].line, i))]
  ELSE IF MatchesOpen(ln)
  THEN [stack |-> Append(st, [label |-> normLabel(ln.cap), line |-> i]),
        out |-> out]
  ELSE [stack |-> st, out |-> out]

\* The comparator of sortByStart.
CompareByStart(a, b) ==
  IF a.start.line - b.start.line # 0
  THEN a.start.line - b.start.line
  ELSE a.end.line - b.end.line

RECURSIVE InsertByStart(_, _)
InsertByStart(s, x) ==
  IF s = <<>> THEN <<x>>
  ELSE IF CompareByStart(s[Len(s)], x) <= 0 THEN Append(s, x)
  ELSE Append(InsertByStart(SubSeq(s, 1, Len(s) - 1), x), s[Len(s)])

RECURSIVE sortByStart(_)
sortByStart(s) ==
  IF s = <<>> THEN <<>>
  ELSE InsertByStart(sortByStart(SubSeq(s, 1, Len(s) - 1)), s[Len(s)])

\* A slip OutermostStep does not make: two ranges that overlap without
\* containment merged into one.
OutermostStepMerging(out, r) ==
  IF out = <<>> THEN <<r>>
  ELSE LET last == out[Len(out)] IN
       IF isAfterOrEqual(r.start, last.start) /\ isBeforeOrEqual(r.end, last.end)
       THEN out
       ELSE IF ~isAfter(r.start, last.end) /\ ~isBefore(r.end, last.start)
       THEN [out EXCEPT ![Len(out)] = Range(last.start, r.end)]
       ELSE Append(out, r)

\* One iteration of outermostOnly's loop: out after r was looked at.
OutermostStep(out, r) ==
  IF out = <<>> THEN <<r>>
  ELSE LET last == out[Len(out)] IN
       IF isAfterOrEqual(r.start, last.start) /\ isBeforeOrEqual(r.end, last.end)
       THEN out
       ELSE IF ~isAfter(r.start, last.end) /\ ~isBefore(r.end, last.start)
       THEN (IF isAfter(r.end, last.end) THEN Append(out, r) ELSE out)
       ELSE Append(out, r)

RECURSIVE outermostOnly(_)
outermostOnly(ranges) ==
  IF ranges = <<>> THEN <<>>
  ELSE OutermostStep(outermostOnly(SubSeq(ranges, 1, Len(ranges) - 1)),
                     ranges[Len(ranges)])

\* The lines parseRegions can meet.
RegionLines ==
  {PlainLine("code")}
    \cup {OpenLine("blank", c) : c \in {NoCapture, "A", "B"}}
    \cup {CloseLine("blank", c) : c \in {NoCapture, " ", "a", "B", "__default__"}}

RegionStart ==
  /\ rpc = "idle"
  /\ rdoc = <<>>
  /\ rstack = <<>>
  /\ rout = <<>>
  /\ cachedRegions = <<>>
  /\ prevStack = <<>>
  /\ prevOut = <<>>

\* applyRegionDecorations calls parseRegions(doc).
ParseStart ==
  /\ rpc = "idle"
  /\ rpc' = "scan"
  /\ rdoc' = <<>>
  /\ rstack' = <<>>
  /\ rout' = <<>>
  /\ prevStack' = <<>>
  /\ prevOut' = <<>>
  /\ UNCHANGED <<cachedRegions, treeVars, busVars, colorVars, astVars, paintVars, loopVars, hashVars, reentVars, bandVars, decoVars, handleVars>>

\* One iteration of `for (let i = 0; i < doc.lineCount; i++)`, reading line i.
ScanLine ==
  /\ rpc = "scan"
  /\ Len(rdoc) < MaxDocLines
  /\ \E ln \in RegionLines :
       LET d == Append(rdoc, ln)
           res == ScanLineResult(d, Len(rdoc), rstack, rout)
       IN /\ rdoc' = d
          /\ rstack' = res.stack
          /\ rout' = res.out
          /\ prevStack' = rstack
          /\ prevOut' = rout
  /\ UNCHANGED <<rpc, cachedRegions, treeVars, busVars, colorVars, astVars, paintVars, loopVars, hashVars, reentVars, bandVars, decoVars, handleVars>>

\* A slip ParseResult does not make: frames left on the stack closed at the
\* last line of the document.
RECURSIVE FlushOpen(_, _, _)
FlushOpen(d, st, out) ==
  IF st = <<>> THEN out
  ELSE FlushOpen(d, SubSeq(st, 1, Len(st) - 1),
                 Append(out, Range(Pos(st[Len(st)].line, 0),
                                   Pos(Len(d) - 1, LineLength(d[Len(d)])))))

ParseResultKeepsOpen(d, st, out) == outermostOnly(sortByStart(FlushOpen(d, st, out)))

\* What parseRegions returns after the scan: frames left on the stack are
\* dropped, the closed ranges are sorted and reduced to the outer ones.
ParseResult(d, st, out) == outermostOnly(sortByStart(out))

\* i = doc.lineCount: parseRegions returns, and applyRegionDecorations stores
\* the result in cachedRegions.
ParseReturn ==
  /\ rpc = "scan"
  /\ rpc' = "parsed"
  /\ cachedRegions' = ParseResult(rdoc, rstack, rout)
  /\ UNCHANGED <<rdoc, rstack, rout, prevStack, prevOut, treeVars, busVars, colorVars, astVars, paintVars, loopVars, hashVars, reentVars, bandVars, decoVars, handleVars>>

\* ----------------------------------------------------------- exclusionBus
ListenerIds == 1 .. MaxListeners

\* Values handed to publishExclusionRanges by a caller other than the parser.
BusValues == {<<>>, <<Range(Pos(0, 0), Pos(1, 12))>>}

NotCalled == "<never called>"

BusStart ==
  /\ listeners = <<>>
  /\ lastRanges = <<>>
  /\ frames = <<>>
  /\ received = [l \in ListenerIds |-> NotCalled]
  /\ calls = <<>>
  /\ raised = FALSE
  /\ lastOp = [op |-> "none", arg |-> <<>>, snap |-> <<>>, done |-> TRUE]
  /\ published = <<>>

InSeq(x, s) == \E i \in 1 .. Len(s) : s[i] = x

\* Set.prototype.add
SetAdd(s, x) == IF InSeq(x, s) THEN s ELSE Append(s, x)

\* Set.prototype.delete
SetDelete(s, x) == SelectSeq(s, LAMBDA y : y # x)

\* A slip publishExclusionRanges does not make: the listener called outside try.
PublishCallUncaught(threw) == threw

\* `try { l(ranges); } catch { /* noop */ }` in publishExclusionRanges:
\* whether an exception thrown by the listener leaves the loop.
PublishCallEscapes(threw) == FALSE

\* `try { listener(lastRanges); } catch { /* noop */ }` in onExclusionRanges.
ReplayCallEscapes(threw) == FALSE

\* A slip onExclusionRanges does not make: the initial value replayed.
ReplayValueInitial(last) == <<>>

\* The value onExclusionRanges replays to the new listener.
ReplayValue(last) == last

\* A slip the for loop does not make: the listeners visited newest first.
NextListenerReversed(ls, idx) == ls[Len(ls) - idx]

\* The listener `for (const l of listeners)` visits after idx others.
NextListener(ls, idx) == ls[idx + 1]

\* What a listener keeps of a call: it stores the ranges unless it threw.
Stored(old, v, threw) == IF threw THEN old ELSE v

\* publishExclusionRanges(v) is entered: lastRanges = ranges.
PublishBegin(v) ==
  /\ frames = <<>>
  /\ lastRanges' = v
  /\ frames' = <<[ranges |-> v, idx |-> 0]>>
  /\ calls' = <<>>
  /\ raised' = FALSE
  /\ lastOp' = [op |-> "publish", arg |-> v, snap |-> listeners, done |-> FALSE]
  /\ published' = v
  /\ UNCHANGED <<listeners, received>>

\* Another caller publishes.
Publish ==
  /\ rpc = "idle"
  /\ \E v \in BusValues : PublishBegin(v)
  /\ UNCHANGED <<treeVars, regionVars, colorVars, astVars, paintVars, loopVars, hashVars, reentVars, bandVars, decoVars, handleVars>>

\* applyRegionDecorations: publishExclusionRanges(cachedRegions).
PublishRegions ==
  /\ rpc = "parsed"
  /\ PublishBegin(cachedRegions)
  /\ rpc' = "publishing"
  /\ UNCHANGED <<rdoc, rstack, rout, cachedRegions, prevStack, prevOut, treeVars, colorVars, astVars, paintVars, loopVars, hashVars, reentVars, bandVars, decoVars, handleVars>>

\* One iteration of `for (const l of listeners)`: the listener is called and
\* returns or throws.
Notify ==
  /\ frames # <<>>
  /\ LET f == frames[Len(frames)] IN
     /\ f.idx < Len(listeners)
     /\ LET l == NextListener(listeners, f.idx) IN
        \E threw \in BOOLEAN :
          /\ calls' = Append(calls, [l |-> l, v |-> f.ranges, threw |-> threw])
          /\ received' = [received EXCEPT ![l] = Stored(@, f.ranges, threw)]
          /\ IF threw /\ PublishCallEscapes(threw)
             THEN /\ frames' = SubSeq(frames, 1, Len(frames) - 1)
                  /\ raised' = TRUE
                  /\ lastOp' = [lastOp EXCEPT !.done = TRUE]
             ELSE /\ frames' = [frames EXCEPT ![Len(frames)].idx = f.idx + 1]
                  /\ UNCHANGED <<raised, lastOp>>
  /\ UNCHANGED <<listeners, lastRanges, published, treeVars, regionVars, colorVars, astVars, paintVars, loopVars, hashVars, reentVars, bandVars, decoVars, handleVars>>

\* The for loop is over: publishExclusionRanges returns.
PublishReturn ==
  /\ frames # <<>>
  /\ frames[Len(frames)].idx >= Len(listeners)
  /\ frames' = SubSeq(frames, 1, Len(frames) - 1)
  /\ lastOp' = [lastOp EXCEPT !.done = TRUE]
  /\ UNCHANGED <<listeners, lastRanges, received, calls, raised, published,
                 treeVars, regionVars, colorVars, astVars, paintVars, loopVars, hashVars, reentVars, bandVars, decoVars, handleVars>>

\* onExclusionRanges(listener): listeners.add, the replay, return a Disposable.
Subscribe ==
  /\ frames = <<>>
  /\ rpc = "idle"
  /\ \E l \in ListenerIds, threw \in BOOLEAN :
       /\ listeners' = SetAdd(listeners, l)
       /\ calls' = <<[l |-> l, v |-> ReplayValue(lastRanges), threw |-> threw]>>
       /\ received' = [received EXCEPT ![l] = Stored(@, ReplayValue(lastRanges), threw)]
       /\ raised' = (threw /\ ReplayCallEscapes(threw))
       /\ lastOp' = [op |-> "subscribe", arg |-> l, snap |-> listeners, done |-> TRUE]
  /\ UNCHANGED <<lastRanges, frames, published, treeVars, regionVars, colorVars, astVars, paintVars, loopVars, hashVars, reentVars, bandVars, decoVars, handleVars>>

\* dispose() of the Disposable onExclusionRanges returned: listeners.delete.
Dispose ==
  /\ frames = <<>>
  /\ rpc = "idle"
  /\ \E l \in ListenerIds :
       /\ InSeq(l, listeners)
       /\ listeners' = SetDelete(listeners, l)
       /\ lastOp' = [op |-> "dispose", arg |-> l, snap |-> listeners, done |-> TRUE]
  /\ calls' = <<>>
  /\ raised' = FALSE
  /\ UNCHANGED <<lastRanges, frames, received, published, treeVars, regionVars, colorVars, astVars, paintVars, loopVars, hashVars, reentVars, bandVars, decoVars, handleVars>>

\* ---- listeners that call the bus from inside their callback
Event(op, l, v) == [op |-> op, l |-> l, v |-> v]

ReentStart == events = <<>>

\* The position of x in the insertion order of the Set.
PositionOf(s, x) == CHOOSE i \in 1 .. Len(s) : s[i] = x

\* A Set iterator that has passed idx entries, after the entry at position p
\* was deleted: entries it has passed no longer count.
AfterDelete(idx, p) == IF p <= idx THEN idx - 1 ELSE idx

\* publishExclusionRanges(v) is called while no call of it is running.
PublishOutermost ==
  /\ rpc = "idle"
  /\ \E v \in BusValues : PublishBegin(v)
  /\ events' = <<>>
  /\ UNCHANGED <<treeVars, regionVars, colorVars, astVars, paintVars, loopVars, hashVars, bandVars, decoVars, handleVars>>

\* The for loop calls the next listener: the frame on top has now passed it.
CallNext(l, f) ==
  /\ frames # <<>>
  /\ f = frames[Len(frames)]
  /\ f.idx < Len(listeners)
  /\ l = NextListener(listeners, f.idx)
  /\ Len(events) < MaxEvents

\* l(ranges) for a listener that only stores the ranges.
CallListener ==
  /\ \E l \in ListenerIds, f \in {frames[k] : k \in 1 .. Len(frames)} :
       /\ CallNext(l, f)
       /\ events' = Append(events, Event("call", l, f.ranges))
       /\ received' = [received EXCEPT ![l] = f.ranges]
       /\ frames' = [frames EXCEPT ![Len(frames)].idx = f.idx + 1]
  /\ UNCHANGED <<listeners, lastRanges, calls, raised, lastOp, published>>
  /\ UNCHANGED <<treeVars, regionVars, colorVars, astVars, paintVars, loopVars, hashVars, bandVars, decoVars, handleVars>>

\* l(ranges) for a listener whose callback calls onExclusionRanges(n):
\* listeners.add(n), then the replay n(lastRanges).
CallSubscriber ==
  /\ \E l \in ListenerIds, f \in {frames[k] : k \in 1 .. Len(frames)}, n \in ListenerIds :
       /\ CallNext(l, f)
       /\ ~InSeq(n, listeners)
       /\ listeners' = SetAdd(listeners, n)
       /\ events' = events \o <<Event("call", l, f.ranges), Event("add", n, <<>>),
                                 Event("replay", n, ReplayValue(lastRanges))>>
       /\ received' = [received EXCEPT ![l] = f.ranges, ![n] = ReplayValue(lastRanges)]
       /\ frames' = [frames EXCEPT ![Len(frames)].idx = f.idx + 1]
  /\ UNCHANGED <<lastRanges, calls, raised, lastOp, published>>
  /\ UNCHANGED <<treeVars, regionVars, colorVars, astVars, paintVars, loopVars, hashVars, bandVars, decoVars, handleVars>>

\* l(ranges) for a listener whose callback disposes the subscription of d:
\* listeners.delete(d); every running for loop skips d if it has not met it.
CallDisposer ==
  /\ \E l \in ListenerIds, f \in {frames[k] : k \in 1 .. Len(frames)}, d \in ListenerIds :
       /\ CallNext(l, f)
       /\ InSeq(d, listeners)
       /\ listeners' = SetDelete(listeners, d)
       /\ events' = events \o <<Event("call", l, f.ranges), Event("delete", d, <<>>)>>
       /\ received' = [received EXCEPT ![l] = f.ranges]
       /\ frames' = [k \in 1 .. Len(frames) |->
                       [frames[k] EXCEPT !.idx =
                          AfterDelete(IF k = Len(frames) THEN f.idx + 1 ELSE @,
                                      PositionOf(listeners, d))]]
  /\ UNCHANGED <<lastRanges, calls, raised, lastOp, published>>
  /\ UNCHANGED <<treeVars, regionVars, colorVars, astVars, paintVars, loopVars, hashVars, bandVars, decoVars, handleVars>>

\* l(ranges) for a listener whose callback calls publishExclusionRanges(v):
\* lastRanges = v and a nested for loop starts from the first listener.
CallPublisher ==
  /\ Len(frames) < MaxCallDepth
  /\ \E l \in ListenerIds, f \in {frames[k] : k \in 1 .. Len(frames)}, v \in BusValues :
       /\ CallNext(l, f)
       /\ v # f.ranges
       /\ lastRanges' = v
       /\ events' = events \o <<Event("call", l, f.ranges), Event("publish", l, v)>>
       /\ received' = [received EXCEPT ![l] = f.ranges]
       /\ frames' = Append([frames EXCEPT ![Len(frames)].idx = f.idx + 1],
                            [ranges |-> v, idx |-> 0])
  /\ UNCHANGED <<listeners, calls, raised, lastOp, published>>
  /\ UNCHANGED <<treeVars, regionVars, colorVars, astVars, paintVars, loopVars, hashVars, bandVars, decoVars, handleVars>>

\* applyRegionDecorations returns once publishExclusionRanges has returned.
RegionReturn ==
  /\ rpc = "publishing"
  /\ frames = <<>>
  /\ rpc' = "returned"
  /\ UNCHANGED <<rdoc, rstack, rout, cachedRegions, prevStack, prevOut, treeVars, busVars, colorVars, astVars, paintVars, loopVars, hashVars, reentVars, bandVars, decoVars, handleVars>>

\* ------------------------------------------- applyFunctionDecorations
\* parseRegions(doc) as one call: the for loop from line i on.
RECURSIVE ScanFrom(_, _, _, _)
ScanFrom(d, i, st, out) ==
  IF i >= Len(d) THEN [stack |-> st, out |-> out]
  ELSE LET res == ScanLineResult(d, i, st, out)
       IN ScanFrom(d, i + 1, res.stack, res.out)

parseRegions(d) ==
  LET fin == ScanFrom(d, 0, <<>>, <<>>) IN ParseResult(d, fin.stack, fin.out)

\* The inner loop body of filterOutSuppressed: what is left of piece p
\* after suppress range s is cut out of it.
CutPiece(p, s) ==
  IF isBeforeOrEqual(p.end, s.start) \/ isAfterOrEqual(p.start, s.end)
  THEN <<p>>
  ELSE (IF isBefore(p.start, s.start) THEN <<Range(p.start, s.start)>> ELSE <<>>)
       \o (IF isAfter(p.end, s.end) THEN <<Range(s.end, p.end)>> ELSE <<>>)

RECURSIVE CutPieces(_, _)
CutPieces(pieces, s) ==
  IF pieces = <<>> THEN <<>>
  ELSE CutPiece(pieces[1], s) \o CutPieces(SubSeq(pieces, 2, Len(pieces)), s)

\* `for (const s of suppress)` from the k-th suppress range on.
RECURSIVE CutBySuppress(_, _, _)
CutBySuppress(pieces, sup, k) ==
  IF k > Len(sup) \/ pieces = <<>> THEN pieces
  ELSE CutBySuppress(CutPieces(pieces, sup[k]), sup, k + 1)

\* isIgnorableLine: blank, a comment line, or a line of brackets and
\* separators only (the documents here hold no block comment).
isIgnorableLine(ln) ==
  \/ ln.body = "blank"
  \/ ln.body = "punct" /\ ln.mark = "none"

\* splitToCodeSegments: the range cut at both ends to lines that hold code.
splitToCodeSegments(d, r) ==
  LET code == {i \in r.start.line .. r.end.line : ~isIgnorableLine(d[i + 1])}
  IN IF code = {} THEN <<>>
     ELSE LET first == CHOOSE i \in code : \A j \in code : i <= j
              last == CHOOSE i \in code : \A j \in code : j <= i
          IN <<Range(Pos(first, 0), Pos(last, LineLength(d[last + 1])))>>

\* keepCodeOnly
RECURSIVE keepCodeOnly(_, _)
keepCodeOnly(d, ranges) ==
  IF ranges = <<>> THEN <<>>
  ELSE splitToCodeSegments(d, ranges[1])
         \o keepCodeOnly(d, SubSeq(ranges, 2, Len(ranges)))

\* filterOutSuppressed(<<r>>, suppress) followed by keepCodeOnly, for the
\* function range with index k: the ranges it is shown by.
ShownOf(d, r, sup, k) ==
  LET visible == IF sup = <<>> THEN <<r>> ELSE CutBySuppress(<<r>>, sup, 1)
      codeOnly == keepCodeOnly(d, visible)
  IN [i \in 1 .. Len(codeOnly) |-> [from |-> k, range |-> codeOnly[i]]]

\* `for (const r of ranges)` of filterOutSuppressed, then keepCodeOnly.
RECURSIVE ShownFrom(_, _, _, _)
ShownFrom(d, all, sup, k) ==
  IF k > Len(all) THEN <<>>
  ELSE ShownOf(d, all[k], sup, k) \o ShownFrom(d, all, sup, k + 1)

\* The lines of the documents shown to the colorer.
ColorLines ==
  {PlainLine(b) : b \in {"blank", "code", "punct", "func"}}
    \cup {OpenLine(b, NoCapture) : b \in {"blank", "code"}}
    \cup {CloseLine(b, NoCapture) : b \in {"blank", "code"}}

ColorDocs == UNION {[1 .. n -> ColorLines] : n \in 1 .. MaxDocLines}

\* maybeFuncStart: the line holds a function head with its opening brace.
maybeFuncStart(ln) == ln.body = "func"

\* countBraces(text) of computeFunctionRanges: the count after the line, and
\* whether the count came back to 0 on it.  A "func" line holds one `{`, a
\* "punct" line one `}`, the other lines no brace.
countBraces(ln, open) ==
  CASE ln.body = "func" -> [open |-> open + 1, done |-> FALSE]
    [] ln.body = "punct" -> [open |-> open - 1, done |-> open - 1 = 0]
    [] OTHER -> [open |-> open, done |-> FALSE]

\* while (open > 0 && endLine + 1 < doc.lineCount) { endLine++; ... }
RECURSIVE FindEndLine(_, _, _)
FindEndLine(d, endLine, open) ==
  IF open > 0 /\ endLine + 1 < Len(d)
  THEN LET res == countBraces(d[endLine + 2], open)
       IN IF res.done THEN endLine + 1 ELSE FindEndLine(d, endLine + 1, res.open)
  ELSE endLine

\* The for loop of computeFunctionRanges from line i on; a function body is
\* skipped (i = endLine).
RECURSIVE ScanFunctions(_, _)
ScanFunctions(d, i) ==
  IF i >= Len(d) THEN <<>>
  ELSE IF ~maybeFuncStart(d[i + 1]) THEN ScanFunctions(d, i + 1)
  ELSE LET endLine == FindEndLine(d, i, countBraces(d[i + 1], 0).open)
       IN <<Range(Pos(i, 0), Pos(endLine, LineLength(d[endLine + 1])))>>
            \o ScanFunctions(d, endLine + 1)

\* dropNested: sorted by start line then end line, a range inside the last
\* kept one is dropped.
RECURSIVE DropNestedFrom(_, _, _)
DropNestedFrom(sorted, k, out) ==
  IF k > Len(sorted) THEN out
  ELSE LET r == sorted[k] IN
       IF out # <<>> /\ isAfterOrEqual(r.start, out[Len(out)].start)
                     /\ isBeforeOrEqual(r.end, out[Len(out)].end)
       THEN DropNestedFrom(sorted, k + 1, out)
       ELSE DropNestedFrom(sorted, k + 1, Append(out, r))

dropNested(ranges) == DropNestedFrom(sortByStart(ranges), 1, <<>>)

computeFunctionRanges(d) == dropNested(ScanFunctions(d, 0))

\* PALETTE of the function colorer.
PALETTE ==
  <<"#FF0000", "#FF7F00", "#FFFF00", "#00C853", "#FADB14",
    "#00E5FF", "#c98bff", "#2979FF", "#7C4DFF">>

\* codeOnly.forEach((r, i) => { const color = PALETTE[i % PALETTE.length]; ... })
StripeColors(codeOnly) ==
  [i \in 1 .. Len(codeOnly) |-> PALETTE[((i - 1) % Len(PALETTE)) + 1]]

NoNote == [line |-> -1, text |-> PlainLine("blank"), color |-> "none"]

\* The functions of the pass that are shown whole, each with the text of its
\* first line and its color.
Notes ==
  {[line |-> shown[i].range.start.line,
    text |-> cdoc[shown[i].range.start.line + 1],
    color |-> stripeColor[i]] :
     i \in {j \in 1 .. Len(shown) : shown[j].range = allFuncs[shown[j].from]}}

ColorStart ==
  /\ cpc = "idle"
  /\ cdoc = <<>>
  /\ allFuncs = <<>>
  /\ suppress = <<>>
  /\ shown = <<>>
  /\ stripeColor = <<>>
  /\ noted = NoNote

\* applyAll(editor): applyRegionDecorations parses and publishes the regions,
\* applyFunctionDecorations(editor, getRegionSuppressionRanges()) cuts them
\* out of the function ranges and shows what is left.
ApplyAll ==
  /\ cpc = "idle"
  /\ \E d \in ColorDocs :
       LET all == computeFunctionRanges(d)
           codeOnly == ShownFrom(d, all, parseRegions(d), 1)
       IN /\ cdoc' = d
          /\ allFuncs' = all
          /\ suppress' = parseRegions(d)
          /\ shown' = codeOnly
          /\ stripeColor' = StripeColors(codeOnly)
  /\ cpc' = "shown"
  /\ UNCHANGED <<noted, treeVars, regionVars, busVars, astVars, paintVars, loopVars, hashVars, reentVars, bandVars, decoVars, handleVars>>

\* The next event finds the editor as the pass left it.
ApplyAllReturn ==
  /\ cpc = "shown"
  /\ cpc' = "idle"
  /\ cdoc' = <<>>
  /\ allFuncs' = <<>>
  /\ suppress' = <<>>
  /\ shown' = <<>>
  /\ stripeColor' = <<>>
  /\ noted' \in {noted} \cup Notes
  /\ UNCHANGED <<treeVars, regionVars, busVars, astVars, paintVars, loopVars, hashVars, reentVars, bandVars, decoVars, handleVars>>

\* ------------------------------------------------------- syntax trees
\* A syntax tree is the sequence of its nodes in the order ts.forEachChild
\* visits them; `depth` is the number of edges from the source file, so the
\* parent of a node is the nearest earlier node one level up.  `jsx` says
\* that the node's own statements contain `return <Identifier`, `exported`
\* that its combined modifier flags carry Export.  Names are sequences of
\* characters; <<>> is a node without a name.
UpperChars == {"B", "F"}
LowerChars == {"a", "e", "f", "o", "r", "s", "u"}
NoName == <<>>
useFoo == <<"u", "s", "e", "F", "o", "o">>
Bar == <<"B", "a", "r">>
foo == <<"f", "o", "o">>
user == <<"u", "s", "e", "r">>
B == <<"B">>

FunctionSyntax == {"FunctionDeclaration", "FunctionExpression", "ArrowFunction"}

Node(syntax, name, jsx, exported, depth, start, end) ==
  [syntax |-> syntax, name |-> name, jsx |-> jsx, exported |-> exported,
   depth |-> depth, start |-> start, end |-> end]

Descendants(t, i) ==
  {j \in i + 1 .. Len(t) : \A k \in i + 1 .. j : t[k].depth > t[i].depth}

Children(t, i) == {j \in Descendants(t, i) : t[j].depth = t[i].depth + 1}

\* 0 for a child of the source file.
ParentOf(t, i) ==
  LET up == {j \in 1 .. i - 1 : i \in Children(t, j)}
  IN IF up = {} THEN 0 ELSE CHOOSE j \in up : TRUE

getName(t, i) == t[i].name

\* /return\s*<\w+/.test(node.getText(sf)): the text of a node holds the text
\* of every node below it.
returnsJSX(t, i) == t[i].jsx \/ \E j \in Descendants(t, i) : t[j].jsx

\* /^[A-Z][A-Za-z0-9]+$/
isPascalName(name) ==
  /\ Len(name) >= 2
  /\ name[1] \in UpperChars
  /\ \A k \in 2 .. Len(name) : name[k] \in UpperChars \cup LowerChars

isLikelyComponentNode(t, i) == returnsJSX(t, i) \/ isPascalName(getName(t, i))

\* /^use[A-Z]/
isHookName(name) ==
  /\ Len(name) >= 4
  /\ SubSeq(name, 1, 3) = <<"u", "s", "e">>
  /\ name[4] \in UpperChars

isFuncNode(t, i) == t[i].syntax \in FunctionSyntax \cup {"MethodDeclaration"}

kindOfHookFirst(t, i) ==
  CASE isHookName(getName(t, i)) -> "hook"
    [] isLikelyComponentNode(t, i) -> "component"
    [] t[i].syntax = "MethodDeclaration" /\ ParentOf(t, i) # 0
         /\ t[ParentOf(t, i)].syntax = "ClassDeclaration" -> "method"
    [] OTHER -> "function"

kindOf(t, i) ==
  CASE t[i].syntax = "MethodDeclaration" -> "method"
    [] isHookName(getName(t, i)) -> "hook"
    [] isLikelyComponentNode(t, i) -> "component"
    [] OTHER -> "function"

Block(t, i, kind, title, depth) ==
  [start |-> t[i].start, end |-> t[i].end, kind |-> kind, title |-> title,
   depth |-> depth, node |-> i, color |-> "none"]

\* The walk of analyzeFunctionTree: one raw Block per function-like node.
rawOfNode(t, i) ==
  LET title == IF getName(t, i) # NoName THEN getName(t, i)
               ELSE IF t[i].syntax = "MethodDeclaration"
                    THEN <<"anonymousMethod">> ELSE <<"anonymousFunction">>
  IN Block(t, i, kindOf(t, i), title, 0)

RECURSIVE walkFuncNodes(_, _)
walkFuncNodes(t, i) ==
  IF i > Len(t) THEN <<>>
  ELSE (IF isFuncNode(t, i) THEN <<rawOfNode(t, i)>> ELSE <<>>)
         \o walkFuncNodes(t, i + 1)

\* The walk of analyze: what it pushes at node i, visited at depth t[i].depth.
\* The titles the code gives to unnamed nodes are written in English here.
RECURSIVE memberBlocks(_, _, _, _)
memberBlocks(t, i, j, name) ==
  IF j > Len(t) THEN <<>>
  ELSE (IF j \in Children(t, i) /\ t[j].syntax = "MethodDeclaration"
        THEN LET mn == IF t[j].name # NoName THEN t[j].name ELSE <<"anonymous method">>
             IN <<Block(t, j, "method", name \o <<".">> \o mn, t[i].depth + 1)>>
        ELSE <<>>) \o memberBlocks(t, i, j + 1, name)

\* node.initializer: the last child of a variable declaration, 0 if none.
initializerOf(t, i) ==
  IF Children(t, i) = {} THEN 0
  ELSE CHOOSE j \in Children(t, i) : \A k \in Children(t, i) : k <= j

pushedAt(t, i) ==
  LET n == t[i]
      depth == n.depth
      classPart ==
        IF n.syntax = "ClassDeclaration"
        THEN LET name == IF n.name # NoName THEN n.name ELSE <<"anonymous class">>
             IN <<Block(t, i, "class", name, depth)>> \o memberBlocks(t, i, i + 1, name)
        ELSE <<>>
      funcPart ==
        IF n.syntax \in FunctionSyntax
        THEN LET name == IF getName(t, i) # NoName THEN getName(t, i)
                         ELSE <<"anonymous function">>
             IN IF isHookName(name) THEN <<Block(t, i, "hook", name, depth)>>
                ELSE IF isLikelyComponentNode(t, i)
                     THEN <<Block(t, i, "component", name, depth)>>
                     ELSE <<Block(t, i, "function", name, depth)>>
        ELSE <<>>
      init == initializerOf(t, i)
      varPart ==
        IF n.syntax = "VariableDeclaration" /\ init # 0
        THEN LET nm == getName(t, i)
             IN IF t[init].syntax \in {"ArrowFunction", "FunctionExpression"}
                THEN IF isHookName(nm) THEN <<Block(t, i, "hook", nm, depth)>>
                     ELSE IF isLikelyComponentNode(t, init) \/ isLikelyComponentNode(t, i)
                          THEN <<Block(t, i, "component", nm, depth)>>
                          ELSE <<Block(t, i, "function", nm, depth)>>
                ELSE IF t[init].syntax \in {"ObjectLiteralExpression", "ArrayLiteralExpression"}
                     THEN <<Block(t, i, "constant",
                                  IF nm # NoName THEN nm ELSE <<"constant">>, depth)>>
                     ELSE <<>>
        ELSE <<>>
      typePart ==
        CASE n.syntax = "TypeAliasDeclaration" -> <<Block(t, i, "type", n.name, depth)>>
          [] n.syntax = "InterfaceDeclaration" -> <<Block(t, i, "interface", n.name, depth)>>
          [] n.syntax = "EnumDeclaration" -> <<Block(t, i, "enum", n.name, depth)>>
          [] OTHER -> <<>>
      exportPart ==
        IF n.exported
        THEN <<Block(t, i, "exported",
                     IF getName(t, i) # NoName THEN getName(t, i) ELSE <<"exported">>,
                     depth)>>
        ELSE <<>>
  IN classPart \o funcPart \o varPart \o typePart \o exportPart

RECURSIVE walk(_, _)
walk(t, i) == IF i > Len(t) THEN <<>> ELSE pushedAt(t, i) \o walk(t, i + 1)

blockKey(b) == <<b.start, b.end, b.kind, b.title>>

RECURSIVE uniq(_, _)
uniq(out, kept) ==
  IF out = <<>> THEN kept
  ELSE uniq(Tail(out),
            IF \E k \in 1 .. Len(kept) : blockKey(kept[k]) = blockKey(Head(out))
            THEN kept ELSE Append(kept, Head(out)))

analyze(t) == uniq(walk(t, 1), <<>>)

FunctionKinds == {"function", "method", "hook", "component"}

palette(kind) ==
  CASE kind = "component" -> "rgba(109,209,124,0.18)"
    [] kind = "hook" -> "rgba(46,200,160,0.18)"
    [] kind = "function" -> "rgba(90,169,255,0.18)"
    [] kind = "method" -> "rgba(140,123,255,0.18)"
    [] kind = "class" -> "rgba(199,116,255,0.18)"
    [] kind = "exported" -> "rgba(255,139,77,0.18)"
    [] kind = "constant" -> "rgba(162,177,184,0.18)"
    [] kind = "type" -> "rgba(255,214,90,0.18)"
    [] kind = "interface" -> "rgba(255,195,113,0.18)"
    [] kind = "enum" -> "rgba(255,157,181,0.18)"
    [] OTHER -> "rgba(144,164,174,0.18)"

functionDepthRainbow ==
  <<"rgba(90,169,255,0.18)", "rgba(38,166,154,0.18)", "rgba(140,123,255,0.18)",
    "rgba(255,112,67,0.18)", "rgba(255,214,90,0.18)">>

Abs(x) == IF x < 0 THEN -x ELSE x

depthColor(b) ==
  IF b.kind \in FunctionKinds
  THEN functionDepthRainbow[(Abs(b.depth) % Len(functionDepthRainbow)) + 1]
  ELSE palette(b.kind)

colorByDepth(bs) == [k \in 1 .. Len(bs) |-> [bs[k] EXCEPT !.color = depthColor(bs[k])]]

\* Trees of any shape made of functions `foo` and other nodes, every node
\* starting on a line of its own and ending on the line where its last
\* descendant starts.
Shapes(n) ==
  {ds \in [1 .. n -> 1 .. n] :
     ds[1] = 1 /\ \A k \in 1 .. n - 1 : ds[k + 1] <= ds[k] + 1}

lastLine(ds, i) ==
  LET below == {j \in i .. Len(ds) : \A k \in i + 1 .. j : ds[k] > ds[i]}
  IN (CHOOSE j \in below : \A k \in below : k <= j) - 1

DeepTrees ==
  UNION {{[i \in 1 .. n |->
              Node(sx[i], IF sx[i] = "Other" THEN NoName ELSE foo, FALSE, FALSE,
                   ds[i], i - 1, lastLine(ds, i))] :
            ds \in Shapes(n), sx \in [1 .. n -> {"FunctionDeclaration", "Other"}]} :
         n \in 1 .. MaxAstNodes}

\* One-line sources holding one declaration.
Names == {useFoo, Bar, foo, user, B}

Decl(syntax, name, jsx, exported, depth) == Node(syntax, name, jsx, exported, depth, 0, 0)

DeclTrees ==
  {<<Decl("FunctionDeclaration", nm, jsx, ex, 1)>> :
     nm \in Names \cup {NoName}, jsx \in BOOLEAN, ex \in BOOLEAN}
  \cup {<<Decl("VariableDeclaration", nm, FALSE, FALSE, 1), Decl(fn[1], fn[2], jsx, FALSE, 2)>> :
          nm \in Names, jsx \in BOOLEAN,
          fn \in {<<"ArrowFunction", NoName>>} \cup ({"FunctionExpression"} \X {NoName, Bar, foo})}
  \cup {<<Decl("ClassDeclaration", cn, FALSE, FALSE, 1), Decl("MethodDeclaration", mn, jsx, FALSE, 2)>> :
          cn \in {Bar, NoName}, mn \in Names, jsx \in BOOLEAN}
  \cup {<<Decl("VariableDeclaration", foo, FALSE, FALSE, 1),
          Decl("ObjectLiteralExpression", NoName, FALSE, FALSE, 2),
          Decl("MethodDeclaration", mn, jsx, FALSE, 3)>> : mn \in Names, jsx \in BOOLEAN}
  \cup {<<Decl("Other", NoName, FALSE, FALSE, 1), Decl(fn[1], fn[2], jsx, FALSE, 2)>> :
          jsx \in BOOLEAN,
          fn \in {<<"ArrowFunction", NoName>>} \cup ({"FunctionExpression"} \X {NoName, Bar, foo})}

AstStart ==
  /\ apc = "idle"
  /\ ast = <<>>
  /\ found = <<>>

\* Provider.refresh of the depth-cycling colorer: analyze, then one color
\* per Block.
RefreshDepth ==
  /\ apc = "idle"
  /\ \E t \in DeepTrees :
       /\ ast' = t
       /\ found' = colorByDepth(analyze(t))
  /\ apc' = "depth"
  /\ UNCHANGED <<treeVars, regionVars, busVars, colorVars, paintVars, loopVars, hashVars, reentVars, bandVars, decoVars, handleVars>>

\* analyze on a declaration.
AnalyzeDecl ==
  /\ apc = "idle"
  /\ \E t \in DeclTrees :
       /\ ast' = t
       /\ found' = analyze(t)
  /\ apc' = "analyze"
  /\ UNCHANGED <<treeVars, regionVars, busVars, colorVars, paintVars, loopVars, hashVars, reentVars, bandVars, decoVars, handleVars>>

\* The walk of analyzeFunctionTree on a declaration.
WalkDecl ==
  /\ apc = "idle"
  /\ \E t \in DeclTrees :
       /\ ast' = t
       /\ found' = walkFuncNodes(t, 1)
  /\ apc' = "tree"
  /\ UNCHANGED <<treeVars, regionVars, busVars, colorVars, paintVars, loopVars, hashVars, reentVars, bandVars, decoVars, handleVars>>

AstReturn ==
  /\ apc # "idle"
  /\ apc' = "idle"
  /\ ast' = <<>>
  /\ found' = <<>>
  /\ UNCHANGED <<treeVars, regionVars, busVars, colorVars, paintVars, loopVars, hashVars, reentVars, bandVars, decoVars, handleVars>>

\* The nearest function-like node that encloses node i, 0 if there is none.
enclosingFunc(t, i) ==
  LET above == {j \in 1 .. i - 1 : i \in Descendants(t, j) /\ isFuncNode(t, j)}
  IN IF above = {} THEN 0 ELSE CHOOSE j \in above : \A k \in above : k <= j

\* C12: under depth cycling a function-like block and a function-like block
\* nested directly inside it never have the same color.
C12_NestedColorsDiffer ==
  apc = "depth" =>
    \A a, b \in 1 .. Len(found) :
      (/\ found[a].kind \in FunctionKinds
       /\ found[b].kind \in FunctionKinds
       /\ enclosingFunc(ast, found[b].node) = found[a].node)
        => found[a].color # found[b].color

\* ---- kinds of function-like nodes
\* The Blocks of the function-like kinds recorded for node i.
kindsFound(i) ==
  {found[k].kind : k \in {j \in 1 .. Len(found) :
                            found[j].node = i /\ found[j].kind \in FunctionKinds}}

\* C17 as stated: a function-like node is a hook whenever its name matches
\* ^use[A-Z], otherwise a component when it returns JSX or has a PascalCase
\* name, otherwise a function, or a method when declared in a class body.
C17_HookBeforeMethod ==
  apc \in {"analyze", "tree"} =>
    \A i \in 1 .. Len(ast) :
      isFuncNode(ast, i) => kindsFound(i) \subseteq {kindOfHookFirst(ast, i)}

\* C17: a method declaration is a method whatever its name and text; any
\* other function-like node is a hook when its name matches ^use[A-Z],
\* otherwise a component when its text holds `return <Identifier` or its
\* name is PascalCase, otherwise a function.  analyzeFunctionTree records
\* one Block for each of them, and `function useFoo(){ return 1; }` gives
\* one Block, a hook titled useFoo.
C17_MethodBeforeHook ==
  apc \in {"analyze", "tree"} =>
    /\ \A i \in 1 .. Len(ast) :
         isFuncNode(ast, i) =>
           /\ kindsFound(i) \subseteq
                {IF ast[i].syntax = "MethodDeclaration" THEN "method"
                 ELSE IF isHookName(ast[i].name) THEN "hook"
                 ELSE IF returnsJSX(ast, i) \/ isPascalName(ast[i].name) THEN "component"
                 ELSE "function"}
           /\ apc = "tree" => Cardinality({k \in 1 .. Len(found) : found[k].node = i}) = 1
    /\ ast = <<Decl("FunctionDeclaration", useFoo, FALSE, FALSE, 1)>> =>
         /\ Len(found) = 1
         /\ found[1].kind = "hook"
         /\ found[1].title = useFoo

\* A method named like a hook has been recorded as a method.
C17_Witness ==
  /\ apc \in {"analyze", "tree"}
  /\ \E i \in 1 .. Len(ast) :
       /\ ast[i].syntax = "MethodDeclaration"
       /\ isHookName(ast[i].name)
       /\ kindsFound(i) = {"method"}

\* The Blocks of the function-like kinds recorded for declaration i or for
\* its initializer.
declaredBlocks(i) ==
  {k \in 1 .. Len(found) :
     found[k].node \in {i, initializerOf(ast, i)} /\ found[k].kind \in FunctionKinds}

\* C18: a variable declaration whose initializer is an arrow function or a
\* function expression yields exactly one Block, titled with the variable's
\* name and classified by the rule applied to that name.
C18_OneBlockNamedByVariable ==
  apc \in {"analyze", "tree"} =>
    \A i \in 1 .. Len(ast) :
      (/\ ast[i].syntax = "VariableDeclaration"
       /\ initializerOf(ast, i) # 0
       /\ ast[initializerOf(ast, i)].syntax \in {"ArrowFunction", "FunctionExpression"})
        => /\ Cardinality(declaredBlocks(i)) = 1
           /\ \A k \in declaredBlocks(i) :
                /\ found[k].title = ast[i].name
                /\ found[k].kind =
                     (IF isHookName(ast[i].name) THEN "hook"
                      ELSE IF returnsJSX(ast, i) \/ isPascalName(ast[i].name) THEN "component"
                      ELSE "function")

\* ------------------------------------------------------- Provider.refresh
\* s.charCodeAt(i) of the characters that occur in titles and line numbers.
charCode(c) ==
  CASE c = ":" -> 58
    [] c = "A" -> 65
    [] c = "B" -> 66
    [] c = "F" -> 70
    [] c = "R" -> 82
    [] c = "a" -> 97
    [] c = "c" -> 99
    [] c = "e" -> 101
    [] c = "f" -> 102
    [] c = "i" -> 105
    [] c = "m" -> 109
    [] c = "n" -> 110
    [] c = "o" -> 111
    [] c = "r" -> 114
    [] c = "s" -> 115
    [] c = "t" -> 116
    [] c = "u" -> 117
    [] c = "y" -> 121
    [] OTHER -> 48 + (CHOOSE d \in 0 .. 9 : c = ToString(d))

anonymousFunction ==
  <<"a", "n", "o", "n", "y", "m", "o", "u", "s", "F", "u", "n", "c", "t", "i", "o", "n">>

\* An identifier whose hash input for start line 2 drives the accumulator to
\* -2^31.
RAuAer == <<"R", "A", "u", "A", "e", "r">>

\* String(n) of a line number.
RECURSIVE decimal(_)
decimal(n) ==
  IF n < 10 THEN <<ToString(n)>> ELSE Append(decimal(n \div 10), ToString(n % 10))

Half == 65536

\* ((h << 5) - h) + c | 0 on 32-bit integers, computed on 16-bit halves.
hashStep(h, c) ==
  LET low == (h % Half) * 31 + c
      high == ((h \div Half) * 31 + (low \div Half)) % Half
  IN (IF high >= Half \div 2 THEN high - Half ELSE high) * Half + (low % Half)

RECURSIVE hashFrom(_, _, _)
hashFrom(s, i, h) ==
  IF i > Len(s) THEN h ELSE hashFrom(s, i + 1, hashStep(h, charCode(s[i])))

\* The least 32-bit integer, -2^31.
MinInt32 == (-(Half \div 2)) * Half

\* A JavaScript number of magnitude up to 2^31, kept as hi * 2^16 + lo.
Num(hi, lo) == [hi |-> hi, lo |-> lo]

\* An absolute value that stays a 32-bit integer: -2^31 has no positive
\* counterpart and is returned unchanged.
absInt32(h) ==
  IF h >= 0 \/ h = MinInt32
  THEN Num(h \div Half, h % Half)
  ELSE Num((-h) \div Half, (-h) % Half)

\* Math.abs(h): h is converted to a double, so Math.abs(-2^31) is 2^31.
mathAbs(h) ==
  IF h >= 0
  THEN Num(h \div Half, h % Half)
  ELSE IF h % Half = 0
       THEN Num(-(h \div Half), 0)
       ELSE Num(-(h \div Half) - 1, Half - (h % Half))

\* function hashStr(s) { let h = 0; for (...) h = ...; return Math.abs(h); }
hashStr(s) == mathAbs(hashFrom(s, 1, 0))

\* x % n of JavaScript: the result has the sign of x.
jsRem(x, n) ==
  IF x.hi >= 0
  THEN ((x.hi % n) * (Half % n) + x.lo) % n
  ELSE -((n - ((x.hi * Half + x.lo) % n)) % n)

RAINBOW ==
  <<"rgba(90,169,255,0.18)", "rgba(38,166,154,0.18)", "rgba(140,123,255,0.18)",
    "rgba(255,112,67,0.18)", "rgba(255,214,90,0.18)", "rgba(109,209,124,0.18)">>

\* RAINBOW[idx]: undefined outside 0 .. RAINBOW.length - 1.
rainbowAt(idx) == IF idx \in 0 .. Len(RAINBOW) - 1 THEN RAINBOW[idx + 1] ELSE "undefined"

hashInput(b) == b.title \o <<":">> \o decimal(b.start)

colorFor(b) == rainbowAt(jsRem(hashStr(hashInput(b)), Len(RAINBOW)))

\* ---- colorFor, one character of hashStr at a time
HashTitles == {anonymousFunction, useFoo, Bar, RAuAer}

HashStart ==
  /\ hpc = "idle"
  /\ hblock = [title |-> <<>>, start |-> 0]
  /\ hk = 1
  /\ hacc = 0
  /\ hret = Num(0, 0)
  /\ hcolor = "none"

\* colorFor(block) is called; hashStr starts with h = 0.
ColorForCall ==
  /\ hpc \in {"idle", "done"}
  /\ \E t \in HashTitles, l \in 0 .. MaxLines - 1 :
       hblock' = [title |-> t, start |-> l]
  /\ hk' = 1
  /\ hacc' = 0
  /\ hret' = Num(0, 0)
  /\ hcolor' = "none"
  /\ hpc' = "loop"
  /\ UNCHANGED <<treeVars, regionVars, busVars, colorVars, astVars, paintVars, loopVars, reentVars, bandVars, decoVars, handleVars>>

\* One iteration of `for (let i = 0; i < s.length; i++)`.
HashChar ==
  /\ hpc = "loop"
  /\ hk <= Len(hashInput(hblock))
  /\ hacc' = hashStep(hacc, charCode(hashInput(hblock)[hk]))
  /\ hk' = hk + 1
  /\ UNCHANGED <<hpc, hblock, hret, hcolor>>
  /\ UNCHANGED <<treeVars, regionVars, busVars, colorVars, astVars, paintVars, loopVars, reentVars, bandVars, decoVars, handleVars>>

\* return Math.abs(h); then idx = ... % RAINBOW.length; return RAINBOW[idx].
ColorForReturn ==
  /\ hpc = "loop"
  /\ hk > Len(hashInput(hblock))
  /\ hret' = mathAbs(hacc)
  /\ hcolor' = rainbowAt(jsRem(mathAbs(hacc), Len(RAINBOW)))
  /\ hpc' = "done"
  /\ UNCHANGED <<hblock, hk, hacc>>
  /\ UNCHANGED <<treeVars, regionVars, busVars, colorVars, astVars, paintVars, loopVars, reentVars, bandVars, decoVars, handleVars>>

\* C30: for every title and start line hashStr returns a non-negative
\* number, also when its 32-bit accumulator ends at -2^31, so the index
\* hashStr(title + ':' + startLine) % RAINBOW.length lies in
\* 0 .. RAINBOW.length - 1 and colorFor returns a color of the palette.
C30_HashIndexInPalette ==
  hpc = "done" =>
    /\ hret.hi >= 0
    /\ jsRem(hret, Len(RAINBOW)) \in 0 .. Len(RAINBOW) - 1
    /\ hcolor \in {RAINBOW[k] : k \in 1 .. Len(RAINBOW)}
    /\ hcolor = colorFor(hblock)

\* colorFor has returned for an input whose accumulator ended at -2^31.
C30_Witness == hpc = "done" /\ hacc = MinInt32 /\ hret = Num(Half \div 2, 0)

\* The loop `for (const r of raws)` of analyzeFunctionTree, from raw i on.
RECURSIVE buildFrom(_, _, _, _)
buildFrom(rs, i, bl, st) ==
  IF i > Len(rs) THEN bl
  ELSE LET popped == PopWhile(st, bl, rs[i])
           b == [start |-> rs[i].start, end |-> rs[i].end, title |-> rs[i].title,
                 depth |-> DepthAtCreation(st),
                 parent |-> IF popped # <<>> THEN popped[Len(popped)] ELSE 0]
       IN buildFrom(rs, i + 1, Append(bl, b), Append(popped, Len(bl) + 1))

\* block.children of block p (p = 0: roots), in the order they were pushed.
RECURSIVE childrenFrom(_, _, _)
childrenFrom(bl, p, i) ==
  IF i > Len(bl) THEN <<>>
  ELSE (IF bl[i].parent = p THEN <<i>> ELSE <<>>) \o childrenFrom(bl, p, i + 1)

\* .sort((a,b) => a[0] - b[0]) of the child intervals.
RECURSIVE insertInterval(_, _)
insertInterval(s, x) ==
  IF s = <<>> THEN <<x>>
  ELSE IF s[Len(s)].start - x.start <= 0 THEN Append(s, x)
  ELSE Append(insertInterval(SubSeq(s, 1, Len(s) - 1), x), s[Len(s)])

RECURSIVE sortIntervals(_)
sortIntervals(s) ==
  IF s = <<>> THEN <<>>
  ELSE insertInterval(sortIntervals(SubSeq(s, 1, Len(s) - 1)), s[Len(s)])

childIntervals(bl, b) ==
  LET ch == childrenFrom(bl, b, 1)
  IN sortIntervals([k \in 1 .. Len(ch) |-> [start |-> bl[ch[k]].start, end |-> bl[ch[k]].end]])

\* while (ci < childIntervals.length && childIntervals[ci][1] < line) ci++
RECURSIVE skipIntervals(_, _, _)
skipIntervals(iv, ci, line) ==
  IF ci <= Len(iv) /\ iv[ci].end < line THEN skipIntervals(iv, ci + 1, line) ELSE ci

\* The loop `for (let line = start; line <= end; line++)` of
\* decorateFunctionBlock: the lines that get a paint span, in order.
RECURSIVE paintLinesUnguarded(_, _, _, _, _)
paintLinesUnguarded(line, end, iv, ci, lines) ==
  IF line > end THEN <<>>
  ELSE LET cj == skipIntervals(iv, ci, line)
       IN IF cj <= Len(iv) /\ line >= iv[cj].start /\ line <= iv[cj].end
          THEN paintLinesUnguarded(iv[cj].end + 1, end, iv, cj, lines)
          ELSE <<line>> \o paintLinesUnguarded(line + 1, end, iv, cj, lines)

RECURSIVE paintLines(_, _, _, _, _)
paintLines(line, end, iv, ci, lines) ==
  IF line > end THEN <<>>
  ELSE LET cj == skipIntervals(iv, ci, line)
       IN IF cj <= Len(iv) /\ line >= iv[cj].start /\ line <= iv[cj].end
          THEN paintLines(iv[cj].end + 1, end, iv, cj, lines)
          ELSE IF line < 0 \/ line >= lines THEN <<>>
          ELSE <<line>> \o paintLines(line + 1, end, iv, cj, lines)

RECURSIVE decorateFunctionBlock(_, _, _)
RECURSIVE decorateAll(_, _, _)
decorateFunctionBlock(bl, b, lines) ==
  LET own == paintLines(bl[b].start, bl[b].end, childIntervals(bl, b), 1, lines)
  IN [k \in 1 .. Len(own) |-> [line |-> own[k], block |-> b, color |-> colorFor(bl[b])]]
       \o decorateAll(bl, childrenFrom(bl, b, 1), lines)

decorateAll(bl, bs, lines) ==
  IF bs = <<>> THEN <<>>
  ELSE decorateFunctionBlock(bl, Head(bs), lines) \o decorateAll(bl, Tail(bs), lines)

\* The lines block b hands to doc.lineAt: the lines of its paint loop
\* (computeBaseIndent walks the same lines behind the same guard and may stop
\* earlier) and, in computeColoringWidth, its start line if the document has it.
linesRead(bl, b, lines) ==
  LET own == paintLines(bl[b].start, bl[b].end, childIntervals(bl, b), 1, lines)
  IN {own[k] : k \in 1 .. Len(own)}
       \cup (IF bl[b].start >= 0 /\ bl[b].start < lines THEN {bl[b].start} ELSE {})

\* buckets.get(color): the lines painted with color c, in push order.
RECURSIVE bucket(_, _)
bucket(ps, c) ==
  IF ps = <<>> THEN <<>>
  ELSE (IF Head(ps).color = c THEN <<Head(ps).line>> ELSE <<>>) \o bucket(Tail(ps), c)

Colors == {RAINBOW[k] : k \in 1 .. Len(RAINBOW)}

\* The keys of buckets: buckets.set(color, arr) runs for every decorated block.
bucketKeys(bl) == {colorFor(bl[b]) : b \in 1 .. Len(bl)}

PaintTitles == {anonymousFunction}

\* No color has been used: decoByColor is empty and nothing is displayed.
PaintStart ==
  /\ ppc = "idle"
  /\ ptree = <<>>
  /\ lineCount = 1
  /\ pass = <<>>
  /\ reads = {}
  /\ display = [c \in Colors |-> <<>>]

\* The documents Provider.refresh can meet: the Blocks of their text, their
\* line count and the paint spans of one decoration pass over the roots.
\* The syntax tree counts U+2028 and U+2029 as line breaks and doc.lineCount
\* does not, so a Block can lie on lines the document does not have.
PaintedDocs ==
  UNION {{LET rs == SortRaws([i \in 1 .. Len(f) |->
                                [start |-> RawOf(f[i]).start, end |-> RawOf(f[i]).end,
                                 title |-> ts[i]]])
              bl == buildFrom(rs, 1, <<>>, <<>>)
          IN [tree |-> bl, lines |-> n,
              spans |-> decorateAll(bl, childrenFrom(bl, 0, 1), n),
              read |-> UNION {linesRead(bl, b, n) : b \in 1 .. Len(bl)}] :
            ts \in [1 .. Len(f) -> PaintTitles], n \in 1 .. MaxLines} :
         f \in SourceFiles}

\* Provider.refresh: the tree of the document's text, one decoration pass
\* over its roots, then setDecorations for every color of the buckets.
Refresh ==
  /\ ppc = "idle"
  /\ \E d \in PaintedDocs :
       /\ ptree' = d.tree
       /\ lineCount' = d.lines
       /\ pass' = d.spans
       /\ reads' = d.read
       /\ display' = [c \in Colors |->
                        IF c \in bucketKeys(d.tree) THEN bucket(d.spans, c) ELSE display[c]]
  /\ ppc' = "painted"
  /\ UNCHANGED <<treeVars, regionVars, busVars, colorVars, astVars, loopVars, hashVars, reentVars, bandVars, decoVars, handleVars>>

\* refresh returns; the decoration types keep what they display.
PaintReturn ==
  /\ ppc = "painted"
  /\ ppc' = "idle"
  /\ ptree' = <<>>
  /\ pass' = <<>>
  /\ reads' = {}
  /\ UNCHANGED <<lineCount, display, treeVars, regionVars, busVars, colorVars, astVars,
                 loopVars, hashVars, reentVars, bandVars, decoVars, handleVars>>

\* The blocks of the tree whose range holds line l.
holders(l) == {b \in 1 .. Len(ptree) : ptree[b].start <= l /\ l <= ptree[b].end}

paintersOf(l) == {k \in 1 .. Len(pass) : pass[k].line = l}

\* C13: in one decoration pass every line inside the range of some block gets
\* a paint span from exactly one block, and that block is an innermost one
\* holding the line: none of its children holds the line too.
C13_OnePaintPerLine ==
  ppc = "painted" =>
    \A l \in 0 .. lineCount - 1 :
      holders(l) # {} =>
        /\ Cardinality(paintersOf(l)) = 1
        /\ \A k \in paintersOf(l) :
             /\ pass[k].block \in holders(l)
             /\ \A b \in holders(l) : ptree[b].parent # pass[k].block

\* C14: after any sequence of refreshes every decoration type displays
\* exactly the paint spans the latest pass produced for its color, and a
\* decoration type no block of the latest pass uses displays nothing.
C14_DisplayIsLatestPass ==
  ppc = "painted" => \A c \in Colors : display[c] = bucket(pass, c)

\* C16: during a decoration pass no line with an index below 0 or at or
\* beyond doc.lineCount is handed to doc.lineAt; a Block whose range runs
\* beyond the document is painted on the lines the document has only.
C16_ReadsInsideDocument ==
  ppc = "painted" =>
    /\ \A l \in reads : 0 <= l /\ l < lineCount
    /\ \A k \in 1 .. Len(pass) : 0 <= pass[k].line /\ pass[k].line < lineCount

\* A Block starts inside the document and ends beyond it, and is painted.
C16_Witness ==
  /\ ppc = "painted"
  /\ \E k \in 1 .. Len(pass) :
       /\ ptree[pass[k].block].start < lineCount
       /\ ptree[pass[k].block].end >= lineCount

\* ------------------------------------------- decorateFunctionBlock, widths
\* A line of text: "blank" (empty or whitespace only), "punct" (only a closing
\* bracket, an optional semicolon after it) or "code"; indent is
\* firstNonWhitespaceCharacterIndex, for a blank line the length of the line.
TextLine(text, indent) == [text |-> text, indent |-> indent]

\* li.text.trim() === ''
trimmedEmpty(li) == li.text = "blank"

\* Number.MAX_SAFE_INTEGER stands above every indentation; the largest
\* integer at hand takes its place.
MAX_SAFE_INTEGER == 2147483647

Max(a, b) == IF a >= b THEN a ELSE b

\* The loop of computeBaseIndent over the lines it visits: it skips the
\* lines of the children and stops at the end of the document exactly as the
\* paint loop does.
RECURSIVE baseFrom(_, _, _, _)
baseFrom(own, k, base, doc) ==
  IF k > Len(own) THEN base
  ELSE LET li == doc[own[k] + 1]
           ind == li.indent
           next == IF ind > 0 /\ ind < base THEN ind ELSE base
       IN IF trimmedEmpty(li) THEN baseFrom(own, k + 1, base, doc)
          ELSE IF next = 1 THEN next
          ELSE baseFrom(own, k + 1, next, doc)

computeBaseIndent(bl, b, doc) ==
  LET own == paintLines(bl[b].start, bl[b].end, childIntervals(bl, b), 1, Len(doc))
      base == baseFrom(own, 1, MAX_SAFE_INTEGER, doc)
  IN IF base = MAX_SAFE_INTEGER THEN 0 ELSE Max(1, base)

computeColoringWidth(bl, b, doc) ==
  LET base == computeBaseIndent(bl, b, doc)
      start == bl[b].start
  IN IF base > 0 THEN base
     ELSE IF start >= 0 /\ start < Len(doc)
     THEN Max(1, IF doc[start + 1].indent # 0 THEN doc[start + 1].indent ELSE 1)
     ELSE 1

\* NBSP.repeat(n)
repeat(n) == [k \in 1 .. n |-> "NBSP"]

\* A slip the paint loop does not make: blank lines left without an option.
RECURSIVE optsSkippingBlank(_, _, _, _, _, _)
optsSkippingBlank(own, k, firstHoverDone, b, width, doc) ==
  IF k > Len(own) THEN <<>>
  ELSE LET li == doc[own[k] + 1]
           hover == ~firstHoverDone /\ ~trimmedEmpty(li)
       IN (IF trimmedEmpty(li) THEN <<>>
           ELSE <<[line |-> own[k], block |-> b, contentText |-> repeat(width),
                   width |-> width, hover |-> hover]>>)
            \o optsSkippingBlank(own, k + 1, firstHoverDone \/ hover, b, width, doc)

\* The DecorationOptions the paint loop pushes for the lines it visits:
\* before.contentText = ghost, width:${coloringWidth}ch, and hoverMessage on
\* the first of them that is not blank.
RECURSIVE optsFrom(_, _, _, _, _, _)
optsFrom(own, k, firstHoverDone, b, width, doc) ==
  IF k > Len(own) THEN <<>>
  ELSE LET li == doc[own[k] + 1]
           hover == ~firstHoverDone /\ ~trimmedEmpty(li)
       IN <<[line |-> own[k], block |-> b, contentText |-> repeat(width),
             width |-> width, hover |-> hover]>>
            \o optsFrom(own, k + 1, firstHoverDone \/ hover, b, width, doc)

RECURSIVE decorateBlock(_, _, _)
RECURSIVE decorateBlocks(_, _, _)
decorateBlock(bl, b, doc) ==
  LET coloringWidth == computeColoringWidth(bl, b, doc)
      own == paintLines(bl[b].start, bl[b].end, childIntervals(bl, b), 1, Len(doc))
  IN IF coloringWidth <= 0 THEN <<>>
     ELSE optsFrom(own, 1, FALSE, b, coloringWidth, doc)
            \o decorateBlocks(bl, childrenFrom(bl, b, 1), doc)

decorateBlocks(bl, bs, doc) ==
  IF bs = <<>> THEN <<>>
  ELSE decorateBlock(bl, Head(bs), doc) \o decorateBlocks(bl, Tail(bs), doc)

TextLines ==
  {TextLine("blank", 0)}
    \cup {TextLine("code", i) : i \in 0 .. MaxIndent}
    \cup {TextLine("punct", i) : i \in 0 .. MaxIndent - 1}

\* The trees analyzeFunctionTree builds for the source files.
BandTrees ==
  {buildFrom(SortRaws([i \in 1 .. Len(f) |->
                         [start |-> RawOf(f[i]).start, end |-> RawOf(f[i]).end,
                          title |-> anonymousFunction]]), 1, <<>>, <<>>) :
     f \in SourceFiles}

\* The first token of a function is on the first line of its Block and its
\* last token on the last line: the first line holds code, the last is not
\* blank.
TextFits(bl, doc) ==
  \A b \in 1 .. Len(bl) :
    /\ bl[b].start < Len(doc) => doc[bl[b].start + 1].text = "code"
    /\ bl[b].end < Len(doc) => doc[bl[b].end + 1].text # "blank"

BandDocs ==
  {d \in BandTrees \X UNION {[1 .. n -> TextLines] : n \in 1 .. MaxLines} :
     TextFits(d[1], d[2])}

BandStart ==
  /\ bpc = "idle"
  /\ btree = <<>>
  /\ bdoc = <<>>
  /\ bwidths = <<>>
  /\ bopts = <<>>

\* Provider.refresh: decorateFunctionBlock for every root; the widths and the
\* options of the pass are kept.
RefreshBands ==
  /\ bpc = "idle"
  /\ \E d \in BandDocs :
       /\ btree' = d[1]
       /\ bdoc' = d[2]
       /\ bwidths' = [b \in 1 .. Len(d[1]) |-> computeColoringWidth(d[1], b, d[2])]
       /\ bopts' = decorateBlocks(d[1], childrenFrom(d[1], 0, 1), d[2])
  /\ bpc' = "painted"
  /\ UNCHANGED <<treeVars, regionVars, busVars, colorVars, astVars, paintVars, loopVars, hashVars, reentVars, decoVars, handleVars>>

\* refresh returns.
BandsReturn ==
  /\ bpc = "painted"
  /\ bpc' = "idle"
  /\ btree' = <<>>
  /\ bdoc' = <<>>
  /\ bwidths' = <<>>
  /\ bopts' = <<>>
  /\ UNCHANGED <<treeVars, regionVars, busVars, colorVars, astVars, paintVars, loopVars, hashVars, reentVars, decoVars, handleVars>>

\* The lines of the document inside the range of block b that no child of b
\* owns.
OwnLines(b) ==
  {l \in 0 .. Len(bdoc) - 1 :
     /\ btree[b].start <= l /\ l <= btree[b].end
     /\ \A c \in 1 .. Len(btree) :
          btree[c].parent = b => ~(btree[c].start <= l /\ l <= btree[c].end)}

OptsOf(b, l) == {k \in 1 .. Len(bopts) : bopts[k].block = b /\ bopts[k].line = l}

HoversOf(b) == {k \in 1 .. Len(bopts) : bopts[k].block = b /\ bopts[k].hover}

\* The lines of the document inside the range of block b that are not blank.
NonBlankLines(b) ==
  {l \in 0 .. Len(bdoc) - 1 :
     btree[b].start <= l /\ l <= btree[b].end /\ ~trimmedEmpty(bdoc[l + 1])}

\* C23: for every block that is painted, the paint span on the first
\* non-blank line of the block carries the hover, and no other span of the
\* block carries one: the block emits exactly one hover in the pass.
C23_OneHoverOnFirstLine ==
  bpc = "painted" =>
    \A b \in 1 .. Len(btree) :
      (\E k \in 1 .. Len(bopts) : bopts[k].block = b) =>
        /\ Cardinality(HoversOf(b)) = 1
        /\ \A k \in HoversOf(b) : \A l \in NonBlankLines(b) : bopts[k].line <= l

\* The lines the indentation width of block b is taken from: its own lines
\* that are neither blank nor punctuation only.
IndentLines(b) == {l \in OwnLines(b) : bdoc[l + 1].text = "code"}

\* C24: the indentation width of a block is the least leading-whitespace
\* width of its own lines that are neither blank nor punctuation only, the
\* indentation of its first line when it has no such line, and at least 1.
C24_WidthIsLeastIndent ==
  bpc = "painted" =>
    \A b \in 1 .. Len(btree) :
      btree[b].start < Len(bdoc) =>
        bwidths[b] =
          Max(1, IF IndentLines(b) # {}
                 THEN CHOOSE w \in {bdoc[l + 1].indent : l \in IndentLines(b)} :
                        \A l \in IndentLines(b) : w <= bdoc[l + 1].indent
                 ELSE bdoc[btree[b].start + 1].indent)

\* ------------------------------------------------- RegionDecorator.apply
\* A line of the document: REGION_START or REGION_END matches it with the
\* captured name, or neither does; text is the line, one character each.
MarkLine(mark, name) == [mark |-> mark, name |-> name, text |-> <<"/", "/", "#", name>>]

CodeLine(text) == [mark |-> "none", name |-> "", text |-> text]

\* text.indexOf('{'), from 0; -1 when the line holds none.
indexOfBrace(text) ==
  IF \E c \in 1 .. Len(text) : text[c] = "{"
  THEN (CHOOSE c \in 1 .. Len(text) :
          text[c] = "{" /\ \A e \in 1 .. c - 1 : text[e] # "{") - 1
  ELSE -1

\* The index of the innermost frame of startStack named name, 0 if none.
matchingStart(st, name) ==
  IF \E i \in 1 .. Len(st) : st[i].name = name
  THEN CHOOSE i \in 1 .. Len(st) :
         st[i].name = name /\ \A j \in i + 1 .. Len(st) : st[j].name # name
  ELSE 0

\* The scan of apply over the lines from line l on: startStack.splice(i)
\* removes the matched frame and every frame above it.
RECURSIVE scanMarkers(_, _, _, _)
scanMarkers(doc, l, st, pairs) ==
  IF l >= Len(doc) THEN [startStack |-> st, pairs |-> pairs]
  ELSE LET ln == doc[l + 1]
           i == matchingStart(st, ln.name)
       IN IF ln.mark = "open"
          THEN scanMarkers(doc, l + 1, Append(st, [name |-> ln.name, line |-> l]), pairs)
          ELSE IF ln.mark = "close" /\ i # 0
          THEN scanMarkers(doc, l + 1, SubSeq(st, 1, i - 1),
                           Append(pairs, [name |-> ln.name, start |-> st[i].line, end |-> l]))
          ELSE scanMarkers(doc, l + 1, st, pairs)

\* The loop of collapseToOutermost over the sorted pairs.
RECURSIVE collapseFrom(_, _, _)
collapseFrom(sorted, k, result) ==
  IF k > Len(sorted) THEN result
  ELSE LET p == sorted[k] IN
       IF result = <<>> THEN collapseFrom(sorted, k + 1, <<p>>)
       ELSE IF p.start >= result[Len(result)].start /\ p.end <= result[Len(result)].end
       THEN collapseFrom(sorted, k + 1, result)
       ELSE collapseFrom(sorted, k + 1, Append(result, p))

\* The sort compares as raws.sort does: start ascending, then end descending.
collapseToOutermost(pairs) == collapseFrom(SortRaws(pairs), 1, <<>>)

toRange(doc, p) == Range(Pos(p.start, 0), Pos(p.end, Len(doc[p.end + 1].text)))

\* a.intersection(b) !== undefined: the later start is not after the earlier end.
intersects(a, b) == isBeforeOrEqual(a.start, b.end) /\ isBeforeOrEqual(b.start, a.end)

intersectsAny(r, arr) == \E k \in 1 .. Len(arr) : intersects(r, arr[k])

\* The first loop of findBraceRange: the first line from l on with a '{', -1
\* if there is none.
RECURSIVE findOpenLine(_, _)
findOpenLine(doc, l) ==
  IF l >= Len(doc) THEN -1
  ELSE IF indexOfBrace(doc[l + 1].text) # -1 THEN l
  ELSE findOpenLine(doc, l + 1)

\* The second loop of findBraceRange from character c of line l on: the line
\* on which depth is 0 after a character, -1 if the document ends first.
RECURSIVE findCloseLine(_, _, _, _)
findCloseLine(doc, l, c, depth) ==
  IF l >= Len(doc) THEN -1
  ELSE IF c >= Len(doc[l + 1].text) THEN findCloseLine(doc, l + 1, 0, depth)
  ELSE LET ch == doc[l + 1].text[c + 1]
           d == IF ch = "{" THEN depth + 1 ELSE IF ch = "}" THEN depth - 1 ELSE depth
       IN IF d = 0 THEN l ELSE findCloseLine(doc, l, c + 1, d)

\* null, the result of findBraceRange when no '{' follows: no Range has line -1.
NoRange == Range(Pos(-1, 0), Pos(-1, 0))

findBraceRange(doc, startLine) ==
  LET openLine == findOpenLine(doc, startLine)
      closeLine == findCloseLine(doc, openLine, indexOfBrace(doc[openLine + 1].text), 0)
      endLine == Len(doc) - 1
  IN IF openLine = -1 THEN NoRange
     ELSE IF closeLine # -1
     THEN Range(Pos(openLine, 0), Pos(closeLine, Len(doc[closeLine + 1].text)))
     ELSE Range(Pos(openLine, 0), Pos(endLine, Len(doc[endLine + 1].text)))

\* `for (const s of unmatchedStarts)` from the k-th start on.
RECURSIVE fallbackFrom(_, _, _, _)
fallbackFrom(doc, starts, k, closed) ==
  IF k > Len(starts) THEN <<>>
  ELSE LET r == findBraceRange(doc, starts[k].line)
       IN (IF r # NoRange /\ ~intersectsAny(r, closed) THEN <<r>> ELSE <<>>)
            \o fallbackFrom(doc, starts, k + 1, closed)

MarkLines ==
  {MarkLine(m, n) : m \in {"open", "close"}, n \in {"A", "B"}}
    \cup {CodeLine(t) : t \in {<<"x">>, <<"{">>, <<"}">>, <<"{", "}">>}}

MarkDocs == UNION {[1 .. n -> MarkLines] : n \in 1 .. MaxDocLines}

DecoStart ==
  /\ dpc = "idle"
  /\ ddoc = <<>>
  /\ dpairs = <<>>
  /\ dunmatched = <<>>
  /\ dfallback = <<>>
  /\ dsent = <<>>

\* RegionDecorator.apply(editor): scan, collapse, brace fallback for the
\* unmatched starts, setDecorations, exclusionEmitter.fire.
DecoratorApply ==
  /\ dpc = "idle"
  /\ \E d \in MarkDocs :
       LET scan == scanMarkers(d, 0, <<>>, <<>>)
           outermostPairs == collapseToOutermost(scan.pairs)
           closed == [k \in 1 .. Len(outermostPairs) |-> toRange(d, outermostPairs[k])]
       IN /\ ddoc' = d
          /\ dpairs' = outermostPairs
          /\ dunmatched' = scan.startStack
          /\ dfallback' = fallbackFrom(d, scan.startStack, 1, closed)
          /\ dsent' = closed
  /\ dpc' = "applied"
  /\ UNCHANGED <<treeVars, regionVars, busVars, colorVars, astVars, paintVars, loopVars, hashVars, reentVars, bandVars, handleVars>>

\* apply returns; the next event finds the decorator idle.
DecoratorReturn ==
  /\ dpc = "applied"
  /\ dpc' = "idle"
  /\ ddoc' = <<>>
  /\ dpairs' = <<>>
  /\ dunmatched' = <<>>
  /\ dfallback' = <<>>
  /\ dsent' = <<>>
  /\ UNCHANGED <<treeVars, regionVars, busVars, colorVars, astVars, paintVars, loopVars, hashVars, reentVars, bandVars, handleVars>>

\* The open markers still open after line l when a close marker closes the
\* innermost open marker of its name and nothing else.
RECURSIVE openFrames(_, _, _)
openFrames(doc, l, st) ==
  IF l >= Len(doc) THEN st
  ELSE LET ln == doc[l + 1]
           i == matchingStart(st, ln.name)
       IN IF ln.mark = "open"
          THEN openFrames(doc, l + 1, Append(st, [name |-> ln.name, line |-> l]))
          ELSE IF ln.mark = "close" /\ i # 0
          THEN openFrames(doc, l + 1, SpliceOne(st, i))
          ELSE openFrames(doc, l + 1, st)

\* The lines of the open markers of the document that are never closed.
NeverClosed ==
  LET st == openFrames(ddoc, 0, <<>>) IN {st[k].line : k \in 1 .. Len(st)}

\* C26: for an open marker that is never closed the fallback range runs
\* from the line of the first '{' at or after the marker line to the line
\* where the nesting depth of that brace is back at zero, or to the last
\* line of the document when it never is; no '{' after the marker gives no
\* range, and a range that intersects a closed outermost region is not used.
C26_FallbackOfUnclosedMarker ==
  dpc = "applied" =>
    /\ \A l \in NeverClosed :
         LET r == findBraceRange(ddoc, l)
         IN (r # NoRange /\ ~intersectsAny(r, dsent)) =>
              \E k \in 1 .. Len(dfallback) : dfallback[k] = r
    /\ \A k \in 1 .. Len(dfallback) :
         /\ ~intersectsAny(dfallback[k], dsent)
         /\ \E l \in NeverClosed : dfallback[k] = findBraceRange(ddoc, l)

\* ------------------------------------------------------- applyAll
\* activate has run: the onRegionsChanged handler that calls applyAll is
\* registered.  No event is being handled.
LoopStart ==
  /\ lframes = <<>>
  /\ ldoc = <<>>
  /\ lregions = <<>>
  /\ lparses = 0
  /\ lcolorings = 0
  /\ llast = <<>>
  /\ lsub = <<>>
  /\ lsuppress = <<>>

\* The documents of the active editor: code lines with and without markers.
LoopDocs ==
  UNION {[1 .. n -> {PlainLine("code"), OpenLine("code", NoCapture),
                     CloseLine("code", NoCapture)}] : n \in 1 .. MaxDocLines}

\* An external event (document change, editor change, refresh command)
\* calls applyAll on the active editor.
ExternalEvent ==
  /\ lframes = <<>>
  /\ \E d \in LoopDocs : ldoc' = d
  /\ lframes' = <<"region">>
  /\ lparses' = 0
  /\ lcolorings' = 0
  /\ UNCHANGED <<lregions, llast, lsub, lsuppress>>
  /\ UNCHANGED <<treeVars, regionVars, busVars, colorVars, astVars, paintVars, hashVars, reentVars, bandVars, decoVars, handleVars>>

\* A slip applyRegionDecorations does not make: the cache left as it was.
cachedRegionsKept(d, old) == old

\* cachedRegions = parseRegions(doc)
cachedRegionsOf(d, old) == parseRegions(d)

\* return cachedRegions.length ? cachedRegions : getLastExclusionRanges()
getRegionSuppressionRanges(cached, last) == IF Len(cached) # 0 THEN cached ELSE last

\* applyRegionDecorations up to _regionEmitter.fire(): the cache is filled,
\* publishExclusionRanges stores it and hands it to the listener of the
\* colorer; the handler registered by activate is called inside fire and
\* calls applyAll again.
ApplyRegion ==
  /\ lframes # <<>>
  /\ lframes[Len(lframes)] = "region"
  /\ Len(lframes) < MaxCallDepth
  /\ lregions' = cachedRegionsOf(ldoc, lregions)
  /\ llast' = lregions'
  /\ lsub' = lregions'
  /\ lparses' = lparses + 1
  /\ lframes' = Append([lframes EXCEPT ![Len(lframes)] = "function"], "region")
  /\ UNCHANGED <<ldoc, lcolorings, lsuppress, treeVars, regionVars, busVars, colorVars, astVars, paintVars, hashVars, reentVars, bandVars, decoVars, handleVars>>

\* The call stack is full: the call of the handler fails with a RangeError,
\* which the emitter swallows (fire returns) or lets through (every
\* activation of applyAll is left).
StackExhausted ==
  /\ lframes # <<>>
  /\ lframes[Len(lframes)] = "region"
  /\ Len(lframes) = MaxCallDepth
  /\ lregions' = cachedRegionsOf(ldoc, lregions)
  /\ llast' = lregions'
  /\ lsub' = lregions'
  /\ lparses' = lparses + 1
  /\ \E swallowed \in BOOLEAN :
       lframes' = IF swallowed THEN [lframes EXCEPT ![Len(lframes)] = "function"] ELSE <<>>
  /\ UNCHANGED <<ldoc, lcolorings, lsuppress, treeVars, regionVars, busVars, colorVars, astVars, paintVars, hashVars, reentVars, bandVars, decoVars, handleVars>>

\* applyFunctionDecorations(editor, getRegionSuppressionRanges()), then
\* applyAll returns.
ApplyFunction ==
  /\ lframes # <<>>
  /\ lframes[Len(lframes)] = "function"
  /\ lcolorings' = lcolorings + 1
  /\ lsuppress' = getRegionSuppressionRanges(lregions, llast)
  /\ lframes' = SubSeq(lframes, 1, Len(lframes) - 1)
  /\ UNCHANGED <<ldoc, lregions, lparses, llast, lsub, treeVars, regionVars, busVars, colorVars, astVars, paintVars, hashVars, reentVars, bandVars, decoVars, handleVars>>

\* C15: while an external event is handled applyAll is never entered again:
\* region parsing and function coloring run at most once per event.
C15_NoRefreshInsideRefresh ==
  /\ Len(lframes) <= 1
  /\ lparses <= 1
  /\ lcolorings <= 1

\* C21: in every applyAll pass the regions are parsed and published before
\* the functions are colored, and the ranges function coloring subtracts
\* (the suppress argument of applyFunctionDecorations and the suppressRanges
\* the bus listener of the colorer stored) are the ranges parsed in this pass
\* from the text of the document being colored, not ranges of an earlier
\* text or of another document.
C21_ColoringSubtractsRegionsOfPass ==
  /\ lcolorings > 0 =>
       /\ lparses > 0
       /\ lsuppress = parseRegions(ldoc)
  /\ lparses > 0 =>
       /\ lsub = parseRegions(ldoc)
       /\ llast = parseRegions(ldoc)

\* Functions were colored in a pass on a document that holds a region.
C21_Witness ==
  /\ lcolorings > 0
  /\ lframes = <<>>
  /\ parseRegions(ldoc) # <<>>
  /\ lsuppress = parseRegions(ldoc)

\* ------------------------------------------------- getDeco, paint handles
\* A slip getDeco does not make: a decoration type created on every call.
createEveryTime(st, color) ==
  [decoByColor |-> (color :> (Len(st.handles) + 1)) @@ st.decoByColor,
   handles |-> Append(st.handles, color)]

\* getDeco(color): a decoration type is created and cached only if the color
\* has none; the state after the call.
getDeco(st, color) ==
  IF color \in DOMAIN st.decoByColor THEN st
  ELSE [decoByColor |-> (color :> (Len(st.handles) + 1)) @@ st.decoByColor,
        handles |-> Append(st.handles, color)]

\* decorateFunctionBlock calls getDeco(colorFor(block)) for every block.
RECURSIVE getDecoAll(_, _)
getDecoAll(st, colors) ==
  IF colors = <<>> THEN st
  ELSE getDecoAll(getDeco(st, Head(colors)), Tail(colors))

\* The keys of buckets, in the order of their first buckets.set.
RECURSIVE keysInOrder(_, _)
keysInOrder(colors, seen) ==
  IF colors = <<>> THEN <<>>
  ELSE IF Head(colors) \in seen THEN keysInOrder(Tail(colors), seen)
       ELSE <<Head(colors)>> \o keysInOrder(Tail(colors), seen \cup {Head(colors)})

\* for (const [color, opts] of buckets): the handle getDeco(color) returns is
\* handed to editor.setDecorations.
RECURSIVE setDecorationsFrom(_, _)
setDecorationsFrom(st, keys) ==
  IF keys = <<>> THEN <<>>
  ELSE LET nx == getDeco(st, Head(keys))
       IN <<nx.decoByColor[Head(keys)]>> \o setDecorationsFrom(nx, Tail(keys))

\* The blocks of a document, in the order decorateFunctionBlock visits them.
HandleDocs ==
  {bs \in UNION {[1 .. n -> [title : HashTitles, start : 0 .. MaxLines - 1]] :
                   n \in 1 .. 2} :
     \A k \in 1 .. Len(bs) - 1 : bs[k].start <= bs[k + 1].start}

HandleStart ==
  /\ gpc = "idle"
  /\ decoByColor = <<>>
  /\ handles = <<>>
  /\ gbefore = 0
  /\ gasked = <<>>
  /\ gused = <<>>

\* Provider.refresh: getDeco for the color of every block, then getDeco for
\* every key of buckets and setDecorations with the handle it returns.
RefreshHandles ==
  /\ gpc = "idle"
  /\ \E bs \in HandleDocs :
       LET colors == [k \in 1 .. Len(bs) |-> colorFor(bs[k])]
           keys == keysInOrder(colors, {})
           decorated == getDecoAll([decoByColor |-> decoByColor, handles |-> handles],
                                   colors)
           painted == getDecoAll(decorated, keys)
       IN /\ decoByColor' = painted.decoByColor
          /\ handles' = painted.handles
          /\ gasked' = colors \o keys
          /\ gused' = setDecorationsFrom(decorated, keys)
  /\ gbefore' = Len(handles)
  /\ gpc' = "painted"
  /\ UNCHANGED <<treeVars, regionVars, busVars, colorVars, astVars, paintVars, loopVars, hashVars, reentVars, bandVars, decoVars>>

\* refresh returns; decoByColor and the handles stay.
HandlesReturn ==
  /\ gpc = "painted"
  /\ gpc' = "idle"
  /\ gbefore' = Len(handles)
  /\ gasked' = <<>>
  /\ gused' = <<>>
  /\ UNCHANGED <<decoByColor, handles>>
  /\ UNCHANGED <<treeVars, regionVars, busVars, colorVars, astVars, paintVars, loopVars, hashVars, reentVars, bandVars, decoVars>>

\* ------------------------------------------------------- specifications
Init ==
  TreeStart /\ RegionStart /\ BusStart /\ ColorStart /\ AstStart /\ PaintStart
    /\ LoopStart /\ HashStart /\ ReentStart /\ BandStart
    /\ DecoStart /\ HandleStart

\* The colorer module has run `onExclusionRanges((rs) => { suppressRanges = rs; })`.
InitSubscribed ==
  /\ TreeStart
  /\ RegionStart
  /\ ColorStart
  /\ AstStart
  /\ PaintStart
  /\ LoopStart
  /\ HashStart
  /\ ReentStart
  /\ BandStart
  /\ DecoStart
  /\ HandleStart
  /\ listeners = <<1>>
  /\ lastRanges = <<>>
  /\ frames = <<>>
  /\ received = [l \in ListenerIds |-> IF l = 1 THEN <<>> ELSE NotCalled]
  /\ calls = <<>>
  /\ raised = FALSE
  /\ lastOp = [op |-> "none", arg |-> <<>>, snap |-> <<>>, done |-> TRUE]
  /\ published = <<>>

SpecTree == Init /\ [][TreeNext]_vars

RegionNext ==
  ParseStart \/ ScanLine \/ ParseReturn \/ PublishRegions \/ Notify
    \/ PublishReturn \/ RegionReturn

SpecRegion == InitSubscribed /\ [][RegionNext]_vars

BusNext == Subscribe \/ Dispose \/ Publish \/ Notify \/ PublishReturn

SpecBus == Init /\ [][BusNext]_vars

ColorNext == ApplyAll \/ ApplyAllReturn

SpecColor == Init /\ [][ColorNext]_vars

WalkNext == RefreshDepth \/ AstReturn

SpecWalk == Init /\ [][WalkNext]_vars

KindNext == AnalyzeDecl \/ WalkDecl \/ AstReturn

SpecKind == Init /\ [][KindNext]_vars

PaintNext == Refresh \/ PaintReturn

SpecPaint == Init /\ [][PaintNext]_vars

LoopNext == ExternalEvent \/ ApplyRegion \/ StackExhausted \/ ApplyFunction

SpecLoop == Init /\ [][LoopNext]_vars

ReentNext ==
  \/ Subscribe
  \/ Dispose
  \/ PublishOutermost
  \/ CallListener
  \/ CallSubscriber
  \/ CallDisposer
  \/ CallPublisher
  \/ PublishReturn

SpecReent == Init /\ [][ReentNext]_vars

BandNext == RefreshBands \/ BandsReturn

SpecBand == Init /\ [][BandNext]_vars

DecoNext == DecoratorApply \/ DecoratorReturn

SpecDeco == Init /\ [][DecoNext]_vars

HandleNext == RefreshHandles \/ HandlesReturn

SpecHandle == Init /\ [][HandleNext]_vars

HashNext == ColorForCall \/ HashChar \/ ColorForReturn

SpecHash == Init /\ [][HashNext]_vars

\* ------------------------------------------------------------ claims

BlockIds == 1 .. Len(blocks)

LinesOverlap(a, b) == ~(a.end < b.start \/ b.end < a.start)

\* C1: in the returned tree every child's full-line range lies inside its
\* parent's, and two distinct children of one parent, and two roots, have
\* line ranges that do not overlap.
C1_ContainedAndSiblingsDisjoint ==
  tpc = "done" =>
    /\ \A i \in BlockIds :
         blocks[i].parent # 0 =>
           /\ blocks[i].start >= blocks[blocks[i].parent].start
           /\ blocks[i].end <= blocks[blocks[i].parent].end
    /\ \A i, j \in BlockIds :
         (i # j /\ blocks[i].parent = blocks[j].parent) =>
           ~LinesOverlap(blocks[i], blocks[j])

\* Node a encloses node b in the source text.
EnclosesInSource(a, b) == a[1] <= b[1] /\ b[2] <= a[2] /\ a # b

\* The blocks whose nodes enclose the node of block i in the source.
Enclosing(i) == {j \in BlockIds : EnclosesInSource(blocks[j].node, blocks[i].node)}

\* C20: in the returned tree the parent of every block is the block of the
\* nearest function-like node that encloses its node in the source, a block
\* whose node no function-like node encloses is a root, and no block hangs
\* under a block whose node does not enclose its own.
C20_ParentIsNearestEnclosing ==
  tpc = "done" =>
    \A i \in BlockIds :
      IF Enclosing(i) = {}
      THEN blocks[i].parent = 0
      ELSE /\ blocks[i].parent \in Enclosing(i)
           /\ \A j \in Enclosing(i) \ {blocks[i].parent} :
                EnclosesInSource(blocks[j].node, blocks[blocks[i].parent].node)

\* The number of ancestors of block i in the returned tree.
RECURSIVE Ancestors(_)
Ancestors(i) == IF blocks[i].parent = 0 THEN 0 ELSE 1 + Ancestors(blocks[i].parent)

\* C27: in the tree returned by analyzeFunctionTree the depth field of every
\* block equals the number of its ancestors: a root has depth 0 and a child
\* has the depth of its parent plus 1.
C27_DepthIsAncestorCount ==
  tpc = "done" => \A i \in BlockIds : blocks[i].depth = Ancestors(i)

\* ---- applyFunctionDecorations
\* Nothing of piece p lies in suppress range s (they may touch end to start).
Apart(p, s) == isBeforeOrEqual(p.end, s.start) \/ isAfterOrEqual(p.start, s.end)

ShownFor(k) == {shown[i].range : i \in {j \in 1 .. Len(shown) : shown[j].from = k}}

\* C2: the colorer shows nothing for a function range that lies inside an
\* exclusion range, and what it shows for any other function range is
\* disjoint from every exclusion range.
C2_ShownAvoidsExclusions ==
  cpc = "shown" =>
    \A k \in 1 .. Len(allFuncs) :
      /\ (\E i \in 1 .. Len(suppress) :
            isAfterOrEqual(allFuncs[k].start, suppress[i].start)
              /\ isBeforeOrEqual(allFuncs[k].end, suppress[i].end))
           => ShownFor(k) = {}
      /\ \A p \in ShownFor(k) : \A i \in 1 .. Len(suppress) : Apart(p, suppress[i])

\* C11: running the coloring twice on unchanged text gives every block the
\* same color, and the color of a function depends only on its title and
\* start line: a function whose first line is where and what it was in an
\* earlier pass has the color it had then, whatever else the document holds.
C11_ColorOfTitleAndLine ==
  cpc = "shown" =>
    \A n \in Notes :
      (n.line = noted.line /\ n.text = noted.text) => n.color = noted.color

\* ---- parseRegions
SeqSet(s) == {s[i] : i \in 1 .. Len(s)}

\* parseRegions has returned.
Parsed == rpc \in {"parsed", "publishing", "returned"}

OpenAt(d) == {i \in 1 .. Len(d) : d[i].mark = "open"}

CloseAt(d) == {i \in 1 .. Len(d) : d[i].mark = "close"}

\* The marker is followed by label text (white space alone is no label).
HasLabelText(ln) == ln.mark # "none" /\ ln.cap \notin {NoCapture, " "}

\* Labels are matched case- and spacing-insensitively.
SameLabel(a, b) == normLabel(a.cap) = normLabel(b.cap)

BalancedUnique(d) ==
  /\ OpenAt(d) # {}
  /\ \A i \in OpenAt(d) \cup CloseAt(d) :
       HasLabelText(d[i]) /\ normLabel(d[i].cap) # "__default__"
  /\ \A i, j \in OpenAt(d) : i # j => ~SameLabel(d[i], d[j])
  /\ \A i, j \in CloseAt(d) : i # j => ~SameLabel(d[i], d[j])
  /\ \A i \in OpenAt(d) : \E j \in CloseAt(d) : j > i /\ SameLabel(d[i], d[j])
  /\ \A j \in CloseAt(d) : \E i \in OpenAt(d) : i < j /\ SameLabel(d[i], d[j])

Pairs(d) == {p \in OpenAt(d) \X CloseAt(d) : SameLabel(d[p[1]], d[p[2]])}

\* From column 0 of the open line to the end of the close line.
PairRange(d, p) == Range(Pos(p[1] - 1, 0), Pos(p[2] - 1, LineLength(d[p[2]])))

EnclosedPair(p, q) == q[1] < p[1] /\ p[2] < q[2]

OuterPairs(d) == {p \in Pairs(d) : ~\E q \in Pairs(d) : EnclosedPair(p, q)}

LastLine == rdoc[Len(rdoc)]

\* C4: a close marker without a label closes the most recently opened
\* still-open marker, whatever its label: the frame on top of the stack is
\* removed and its range, from its line to the close line, is produced.
C4_UnlabelledCloseClosesTop ==
  (rpc = "scan" /\ rdoc # <<>> /\ LastLine.mark = "close"
     /\ ~HasLabelText(LastLine) /\ prevStack # <<>>) =>
    /\ rstack = SubSeq(prevStack, 1, Len(prevStack) - 1)
    /\ rout = Append(prevOut,
                     lineRange(rdoc, prevStack[Len(prevStack)].line, Len(rdoc) - 1))

NoRangeFromOpen(rs) ==
  \A k \in 1 .. Len(rstack) : \A i \in 1 .. Len(rs) :
    rs[i].start.line # rstack[k].line

\* C5: a marker still open when the scan ends contributes no range to the
\* parser's result, nor to the published ExclusionSet.
C5_UnclosedGivesNoRange ==
  Parsed => (NoRangeFromOpen(cachedRegions) /\ NoRangeFromOpen(lastRanges))

\* A document with a closed and an unclosed region has been published.
C5_Witness ==
  /\ rpc = "returned"
  /\ rstack # <<>>
  /\ lastRanges # <<>>
  /\ lastRanges = cachedRegions

\* C6: a close marker that finds nothing to close (a labelled close with no
\* same-label frame on the stack, or any close while the stack is empty)
\* produces no range and leaves the stack unchanged.
C6_UnmatchedCloseIgnored ==
  (rpc = "scan" /\ rdoc # <<>> /\ LastLine.mark = "close"
     /\ \/ prevStack = <<>>
        \/ /\ HasLabelText(LastLine)
           /\ \A k \in 1 .. Len(prevStack) :
                prevStack[k].label # normLabel(LastLine.cap)) =>
    (rstack = prevStack /\ rout = prevOut)

\* The frames of the stack before the last line whose label is lbl.
FramesLabelled(lbl) == {k \in 1 .. Len(prevStack) : prevStack[k].label = lbl}

\* C19: a labelled close marker closes the nearest frame, from the top of the
\* stack down, whose normalized label equals its own, removes that frame
\* only and leaves every other frame open, those above it too; it closes no
\* frame whose normalized label differs.
C19_LabelledCloseClosesSameLabel ==
  (rpc = "scan" /\ rdoc # <<>> /\ LastLine.mark = "close" /\ HasLabelText(LastLine)) =>
    LET same == FramesLabelled(normLabel(LastLine.cap)) IN
    IF same = {}
    THEN rstack = prevStack /\ rout = prevOut
    ELSE LET k == CHOOSE i \in same : \A j \in same : j <= i
         IN /\ rstack = SpliceOne(prevStack, k)
            /\ rout = Append(prevOut, lineRange(rdoc, prevStack[k].line, Len(rdoc) - 1))

ContainedIn(r, q) ==
  isAfterOrEqual(r.start, q.start) /\ isBeforeOrEqual(r.end, q.end)

\* C7: the sequence parseRegions returns is sorted by start line, holds no
\* range contained in another returned range, and holds every closed range
\* that no other closed range contains, as it was closed (never merged).
C7_SortedOutermostUnmerged ==
  Parsed =>
    /\ \A i, j \in 1 .. Len(cachedRegions) :
         i < j => cachedRegions[i].start.line <= cachedRegions[j].start.line
    /\ \A i, j \in 1 .. Len(cachedRegions) :
         i # j => ~ContainedIn(cachedRegions[i], cachedRegions[j])
    /\ SeqSet(cachedRegions) \subseteq SeqSet(rout)
    /\ \A r \in SeqSet(rout) :
         (\A q \in SeqSet(rout) : q # r => ~ContainedIn(r, q)) =>
           r \in SeqSet(cachedRegions)

\* Two returned ranges overlap without containment.
C7_Witness ==
  /\ Parsed
  /\ Len(cachedRegions) = 2
  /\ ~isAfter(cachedRegions[2].start, cachedRegions[1].end)
  /\ isAfter(cachedRegions[2].end, cachedRegions[1].end)

\* ---- exclusionBus
\* C8: onExclusionRanges calls the new listener, before it returns, with the
\* most recently published ExclusionSet (the empty one when there is none).
C8_ReplayOnSubscribe ==
  lastOp.op = "subscribe" =>
    /\ Len(calls) = 1
    /\ calls[1].l = lastOp.arg
    /\ calls[1].v = published
    /\ InSeq(lastOp.arg, listeners)

\* A listener subscribed after a non-empty ExclusionSet was published.
C8_Witness ==
  /\ lastOp.op = "subscribe"
  /\ published # <<>>
  /\ calls # <<>>
  /\ calls[1].v = published

PublishDone == lastOp.op = "publish" /\ lastOp.done

\* C9: when a listener throws during publishExclusionRanges, every other
\* registered listener is still called with the published ranges, lastRanges
\* is the published value, and the call returns without raising.
C9_ThrowIsIsolated ==
  (PublishDone /\ \E i \in 1 .. Len(calls) : calls[i].threw) =>
    /\ ~raised
    /\ lastRanges = lastOp.arg
    /\ \A k \in 1 .. Len(lastOp.snap) :
         \E i \in 1 .. Len(calls) :
           calls[i].l = lastOp.snap[k] /\ calls[i].v = lastOp.arg

\* The first of several listeners threw, and a later one stored the value.
C9_Witness ==
  /\ PublishDone
  /\ Len(calls) >= 2
  /\ calls[1].threw
  /\ ~calls[Len(calls)].threw
  /\ received[calls[Len(calls)].l] = lastOp.arg
  /\ lastOp.arg # <<>>

\* C10: publishExclusionRanges calls, before it returns, every registered
\* listener with the published ranges, in the order of registration.
C10_AllCalledInOrder ==
  PublishDone =>
    /\ Len(calls) = Len(lastOp.snap)
    /\ \A i \in 1 .. Len(calls) :
         calls[i].l = lastOp.snap[i] /\ calls[i].v = lastOp.arg

\* Listeners registered in the order 2, 1 were called in that order.
C10_Witness ==
  /\ PublishDone
  /\ lastOp.snap = <<2, 1>>
  /\ Len(calls) = 2
  /\ calls[1].l = 2
  /\ calls[2].l = 1

\* ---- exclusionBus, listeners that call the bus from inside their callback
EventsOf(ops, l) == {k \in 1 .. Len(events) : events[k].op \in ops /\ events[k].l = l}

\* publishExclusionRanges was called while no call of it was running, and it
\* has returned.
OutermostReturned == frames = <<>> /\ lastOp.op = "publish"

NoNestedPublish == \A k \in 1 .. Len(events) : events[k].op # "publish"

\* C28: a call of publishExclusionRanges calls every listener that is
\* registered when the call starts, and stays registered, exactly once; a
\* listener that a callback registers while the for loop runs is called
\* exactly once, by its replay and with the published ranges, and not again
\* by the running loop; a listener disposed before its turn is not called.
C28_EachListenerOnce ==
  (OutermostReturned /\ NoNestedPublish) =>
    \A l \in ListenerIds :
      LET atStart == InSeq(l, lastOp.snap)
          added == EventsOf({"add"}, l)
          deleted == EventsOf({"delete"}, l)
          called == EventsOf({"call"}, l)
          replayed == EventsOf({"replay"}, l)
      IN /\ (atStart /\ deleted = {}) => Cardinality(called) = 1
         /\ (~atStart /\ Cardinality(added) = 1 /\ deleted = {}) =>
              /\ Cardinality(called \cup replayed) = 1
              /\ \A k \in replayed : events[k].v = lastOp.arg
         /\ (atStart /\ added = {} /\ deleted # {}) =>
              \A k \in called : \A j \in deleted : k < j

\* The ranges of the last call or replay of listener l.
LastDelivered(l) ==
  LET ks == EventsOf({"call", "replay"}, l)
  IN IF ks = {} THEN NotCalled
     ELSE events[CHOOSE k \in ks : \A j \in ks : j <= k].v

\* C29: once an outermost publishExclusionRanges has returned, the ranges
\* last handed to every registered listener are the ranges
\* getLastExclusionRanges returns, also when a callback published during the
\* notification.
C29_ListenersHoldLastRanges ==
  OutermostReturned =>
    \A l \in ListenerIds : InSeq(l, listeners) => LastDelivered(l) = lastRanges

HandlesOf(c) == {k \in 1 .. Len(handles) : handles[k] = c}

====
